---- MODULE Spec2Model ----
(***************************************************************************)
(* Verification model of the iterator-IR type inference engine             *)
(* (gt4py/next/iterator/type_system/inference.py), the lambda inliner      *)
(* (functional/iterator/transforms/inline_lambdas.py) and the pass driver  *)
(* (gt4py/next/iterator/transforms/pass_manager.py).                       *)
(***************************************************************************)
EXTENDS Integers, Sequences, FiniteSets, TLC

\* ---- state of the compatibility-predicate harness (SpecCompat) ----
VARIABLES type_a, type_b, is_compatible

\* ---- state of the type inference (SpecInfer) ----
VARIABLES
    tree,        \* the expression infer is called on
    calls,       \* number of infer calls made on it
    allow_undeclared,  \* allow_undeclared_symbols of the last call
    in_place,    \* inplace of the last call
    given_type,  \* type fields of the tree handed to the last call, after the call
    node_type,   \* type fields of the tree the engine worked on (returned on success)
    rules,       \* the ObservableTypeInferenceRules of the last call
    subs,        \* the on_inferred closures of the last call
    writes,      \* the type-field writes attempted by the last call
    late,        \* an on_inferred call returned leaving a ready callback uninvoked
    error        \* exception raised by the last call, "none" otherwise

\* apply_common_transforms in one of its two fixpoint loops
VARIABLES
    ir,             \* the tree the loop works on
    pc,             \* where the call is
    unroll_reduce,  \* the option of that name
    mergeasfop_uids, \* the next id of the generator of that name
    iteration,      \* applications of the loop body made by the current loop
    changes,        \* those of them whose compared rewrite differed from its input
    last_equal      \* whether the last one's compared rewrite equalled its input

\* one call of inline_lambda, or of InlineLambdas.apply, on an applied lambda
VARIABLES
    lambda_call,       \* the FunCall the inliner is called on
    preserve_opcount,  \* the argument opcount_preserving
    inline_lift,       \* the argument force_inline_lift
    caller_eligible,   \* the argument eligible_params, <<>> when not given
    called,            \* the function called: "inline_lambda" or "apply", "none" before
    substituted,       \* eligible_params as inline_lambda ended up with
    renamed,           \* name_map of inline_lambda
    new_node           \* the tree returned

\* one call of apply_common_transforms, statement by statement
VARIABLES
    options,     \* the keyword arguments that select the optional stages
    is_program,  \* whether the argument ir is an itir.Program
    line,        \* the line of pass_manager.py the call is at
    loop_count,  \* iterations the current for loop has started
    ran,         \* the passes called so far, in order, with their outcome
    exception,   \* the exception that left the call, "none" otherwise
    returned     \* whether the call has returned a tree

\* one visit of a StencilClosure whose children have been visited
VARIABLES
    domain_type,   \* the result of visiting node.domain
    input_types,   \* the results of visiting node.inputs
    output_type,   \* the result of visiting node.output
    stencil_rule,  \* the result of visiting node.stencil
    closure_type,  \* the StencilClosureType returned, None before and on failure
    closure_error  \* the exception raised by the visit, "none" otherwise

\* the type field of one node under a sequence of type writes
VARIABLES
    held,        \* the types the node's type field has held, oldest first
    write_error  \* the exception raised by the last write, "none" otherwise

\* two IR nodes compared and hashed
VARIABLES
    node_a,    \* the left operand of ==
    node_b,    \* the right operand of ==
    equal_ab,  \* str(node_a == node_b), "unknown" before the comparison
    hash_a,    \* hash(node_a), None before
    hash_b     \* hash(node_b), None before

\* typing of one OffsetLiteral or AxisLiteral by ITIRTypeInference.apply
VARIABLES
    offset_provider,  \* the offset_provider argument: pairs <<name, provider>>
    stored_types,     \* the types stored on the nodes of the given tree
    dimensions,       \* ITIRTypeInference.dimensions, a dict name -> Dimension
    literal_node,     \* the node visited
    literal_type,     \* the type returned by the visit, None before it
    literal_err       \* "none", or the exception the visit raised

\* one GTFNExecutor and the calls made to it
VARIABLES
    _cache,            \* GTFNExecutor._cache: dict cache_key -> compiled runner
    workflow_runs,     \* per cache key, the number of times otf_workflow was called
    workflow_returns,  \* per cache key, the number of times otf_workflow returned
    calls_by_key,      \* per cache key, the number of calls of the executor
    last_call          \* the latest call: its key, arguments and what it invoked

\* TraceShifts().visit(testee, shifts=actual)
VARIABLES
    testee,       \* the StencilClosure visited
    actual,       \* the shifts dict: input name -> list of offset tuples
    trace_state   \* "pending" before the visit, "visited" after it

(***************************************************************************)
(* Bounds of the model                                                     *)
(***************************************************************************)
\* longest tuple / positional-argument list drawn for the type universe
MaxArity == 2

\* number of successive infer calls on one tree
MaxInferCalls == 2

\* largest integer literal the passes compute with
MaxLiteral == 12

\* number of neighbors of the connectivities of the offset provider
NeighborCount == 2

\* depth of the nested lambdas of the trees Chain
MaxChain == 6

\* most inputs of a stencil closure
MaxInputs == 2

\* most type writes made to one node
MaxWrites == 3

\* calls made to one executor
MaxCalls == 3

\* most steps (shift, lift, cast_) between a stencil parameter and its deref
MaxPath == 2

\* width in bits of the hash values the cache is keyed by
HashBits == 3

(***************************************************************************)
(* Generic helpers                                                         *)
(***************************************************************************)
None == [k |-> "None"]

\* the node field of a rule that is attached to no node
NoNode == <<-1>>

Range(s) == {s[i] : i \in 1..Len(s)}

Min(a, b) == IF a <= b THEN a ELSE b

SeqsUpTo(S, n) == UNION {[1..m -> S] : m \in 0..n}

\* [v] * n, built element by element
RECURSIVE Repeat(_, _)
Repeat(n, v) == IF n = 0 THEN <<>> ELSE Append(Repeat(n - 1, v), v)

\* the function f as an explicit table of its values
Table(f) == f @@ <<>>

(***************************************************************************)
(* Type specifications (gt4py.next.type_system.type_specifications and     *)
(* gt4py.next.iterator.type_system.type_specifications)                    *)
(***************************************************************************)
Dimension(value, kind) == [value |-> value, kind |-> kind]

IDim == Dimension("IDim", "horizontal")
JDim == Dimension("JDim", "horizontal")

\* IteratorType.position_dims == "unknown": the sentinel is kept as a value that
\* is no list of dimensions of a program
Unknown == <<Dimension("unknown", "sentinel")>>

ScalarType(kind) == [k |-> "ScalarType", kind |-> kind]

DeferredType == [k |-> "DeferredType"]

TupleType(types) == [k |-> "TupleType", types |-> types]

\* pos_or_kw_args and kw_only_args are dicts: sequences of <<name, type>> in
\* insertion order
FunctionType(pos_only_args, pos_or_kw_args, kw_only_args, returns) ==
    [k |-> "FunctionType", pos_only_args |-> pos_only_args,
     pos_or_kw_args |-> pos_or_kw_args, kw_only_args |-> kw_only_args,
     returns |-> returns]

IteratorType(position_dims, defined_dims, element_type) ==
    [k |-> "IteratorType", position_dims |-> position_dims,
     defined_dims |-> defined_dims, element_type |-> element_type]

IntType == ScalarType("int32")
FloatType == ScalarType("float64")
BoolType == ScalarType("bool")

\* dict.values()
Values(d) == [i \in 1..Len(d) |-> d[i][2]]

(***************************************************************************)
(* _is_compatible_type.  The outcome is "true", "false" or "raise": zip(...,*)
(* strict=True) raises ValueError on lists of different length and the     *)
(* attribute reads type_b.types / type_b.pos_only_args raise AttributeError *)
(* when type_b is of another kind.                                         *)
(***************************************************************************)
And3(x, y) == IF x = "raise" \/ y = "raise" THEN "raise"
              ELSE IF x = "true" /\ y = "true" THEN "true" ELSE "false"

B3(b) == IF b THEN "true" ELSE "false"

\* _is_compatible_type answering False for every pair of types
never_compatible(a, b) == "false"

RECURSIVE is_compatible_type(_, _)
RECURSIVE zip_compatible(_, _, _)

\* for a, b in zip(as, bs, strict=True): is_compatible &= _is_compatible_type(a, b)
\* from index i on; an exception of an element comparison or of zip ends the loop
zip_compatible(as, bs, i) ==
    IF i > Len(as) \/ i > Len(bs)
    THEN IF Len(as) = Len(bs) THEN "true" ELSE "raise"
    ELSE LET head == is_compatible_type(as[i], bs[i])
         IN  IF head = "raise" THEN "raise"
             ELSE And3(head, zip_compatible(as, bs, i + 1))

is_compatible_type(a, b) ==
    IF a.k = "IteratorType" /\ b.k = "IteratorType"
    THEN B3(/\ (a.position_dims # Unknown /\ b.position_dims # Unknown)
                  => a.position_dims = b.position_dims
            /\ (a.defined_dims # <<>> /\ b.defined_dims # <<>>)
                  => a.defined_dims = b.defined_dims
            /\ a.element_type = b.element_type)
    ELSE IF a.k = "TupleType"
    THEN IF b.k # "TupleType" THEN "raise"
         ELSE zip_compatible(a.types, b.types, 1)
    ELSE IF a.k = "FunctionType"
    THEN IF b.k # "FunctionType" THEN "raise"
         ELSE LET p == zip_compatible(a.pos_only_args, b.pos_only_args, 1)
                  q == IF p = "raise" THEN "raise"
                       ELSE zip_compatible(Values(a.pos_or_kw_args),
                                           Values(b.pos_or_kw_args), 1)
                  r == IF q = "raise" THEN "raise"
                       ELSE zip_compatible(Values(a.kw_only_args),
                                           Values(b.kw_only_args), 1)
                  s == IF r = "raise" THEN "raise"
                       ELSE is_compatible_type(a.returns, b.returns)
              IN  And3(And3(p, q), And3(r, s))
    ELSE B3(a = b)

(***************************************************************************)
(* IR nodes (gt4py/next/iterator/ir.py).  A node is identified by its path *)
(* from the root (0 = fun of a FunCall / expr of a Lambda, i = i-th        *)
(* argument / parameter); the mutable type field of every node but Literal *)
(* is kept in a map from paths, outside the compared value.                *)
(***************************************************************************)
Sym(id) == [kind |-> "Sym", id |-> id]

Literal(value, type) == [kind |-> "Literal", value |-> value, type |-> type]

SymRef(id) == [kind |-> "SymRef", id |-> id]

Lambda(params, expr) == [kind |-> "Lambda", params |-> params, expr |-> expr]

FunCall(fun, args) == [kind |-> "FunCall", fun |-> fun, args |-> args]

RECURSIVE NodeAt(_, _)
NodeAt(node, path) ==
    IF path = <<>> THEN node
    ELSE IF node.kind = "Lambda"
    THEN NodeAt(IF path[1] = 0 THEN node.expr ELSE node.params[path[1]], Tail(path))
    ELSE NodeAt(IF path[1] = 0 THEN node.fun ELSE node.args[path[1]], Tail(path))

RECURSIVE Paths(_)
Paths(node) ==
    {<<>>} \cup
    IF node.kind = "Lambda"
    THEN {<<0>> \o p : p \in Paths(node.expr)}
         \cup {<<i>> : i \in 1..Len(node.params)}
    ELSE IF node.kind = "FunCall"
    THEN {<<0>> \o p : p \in Paths(node.fun)}
         \cup UNION {{<<i>> \o p : p \in Paths(node.args[i])} : i \in 1..Len(node.args)}
    ELSE {}

\* the type fields of a freshly built tree: only Literal carries one
InitialTypes(prog) ==
    Table([p \in Paths(prog) |->
              IF NodeAt(prog, p).kind = "Literal" THEN NodeAt(prog, p).type ELSE None])

(***************************************************************************)
(* The inference engine.  One inference call is evaluated as a whole; its  *)
(* mutable state is threaded through the operators as the record st:       *)
(*   prog, allow  the tree being typed and allow_undeclared_symbols        *)
(*   types        the type field of every node (None when unset)           *)
(*   rules        the ObservableTypeInferenceRule objects, by creation     *)
(*   subs         the closures (ready_args, inferred_args, callback) of    *)
(*                the on_inferred calls made so far                        *)
(*   err          the exception that ended the call, "none" otherwise      *)
(*   writes, late history kept for the properties: the attempts to write a *)
(*                type field, and whether an on_inferred call returned     *)
(*                leaving a ready callback uninvoked                       *)
(* Every operator is the identity on a state that already carries an       *)
(* exception: the exception propagates to the caller of infer.             *)
(***************************************************************************)
TypeKinds == {"ScalarType", "DeferredType", "TupleType", "FunctionType",
              "IteratorType"}

IsTypeSpec(v) == v.k \in TypeKinds

RuleRef(i) == [k |-> "Rule", ref |-> i]

IsRule(v) == v.k = "Rule"

\* a plain callable that is no ObservableTypeInferenceRule
Callable(type_rule) == [k |-> "Callable", type_rule |-> type_rule]

IsCallable(v) == v.k \in {"Rule", "Callable"}

Ret(st, val) == [st |-> st, val |-> val]

Raise(st, e) == IF st.err = "none" THEN [st EXCEPT !.err = e] ELSE st

\* dataclass ObservableTypeInferenceRule
ObservableTypeInferenceRule(type_rule, node, store_inferred_type_in_node) ==
    [type_rule |-> type_rule, node |-> node, aliases |-> <<>>, callbacks |-> <<>>,
     inferred_type |-> None, store_inferred_type_in_node |-> store_inferred_type_in_node,
     resolutions |-> 0]

AddRule(st, rule) == [st EXCEPT !.rules = Append(@, rule)]

\* a target of on_inferred is resolved: a type, or an observable whose type is ready
Resolved(st, arg) == IsTypeSpec(arg) \/ (IsRule(arg) /\ st.rules[arg.ref].inferred_type # None)

\* int(s) of the strings that occur as literal values; ValueError otherwise
IntStrings == {"-2", "-1", "0", "1", "2", "3"}

ParseInt(s) == CASE s = "-2" -> -2 [] s = "-1" -> -1 [] s = "0" -> 0
                 [] s = "1" -> 1 [] s = "2" -> 2 [] s = "3" -> 3

\* the record kept of one attempt to write a node's type field: the type the
\* node carried, the type proposed and whether the write raised
WriteAttempt(st, path, proposed, raised) ==
    [path |-> path, existing |-> st.types[path], proposed |-> proposed,
     raised |-> raised]

Logged(st, entry) == [st EXCEPT !.writes = Append(@, entry)]

\* _set_node_type without its assertion
set_node_type_unchecked(st, path, type_) ==
    IF st.err # "none" THEN st
    ELSE [Logged(st, WriteAttempt(st, path, type_, FALSE)) EXCEPT !.types[path] = type_]

\* _set_node_type with the assignment placed before the assertion
set_node_type_write_first(st, path, type_) ==
    IF st.err # "none" THEN st
    ELSE IF st.types[path] # None /\ is_compatible_type(st.types[path], type_) # "true"
    THEN Raise([Logged(st, WriteAttempt(st, path, type_, TRUE))
                   EXCEPT !.types[path] = type_],
               IF is_compatible_type(st.types[path], type_) = "false"
               THEN "AssertionError" ELSE "ValueError")
    ELSE [Logged(st, WriteAttempt(st, path, type_, FALSE)) EXCEPT !.types[path] = type_]

\* _set_node_type
set_node_type(st, path, type_) ==
    IF st.err # "none" THEN st
    ELSE IF st.types[path] # None /\ is_compatible_type(st.types[path], type_) # "true"
    THEN Raise(Logged(st, WriteAttempt(st, path, type_, TRUE)),
               IF is_compatible_type(st.types[path], type_) = "false"
               THEN "AssertionError" ELSE "ValueError")
    ELSE [Logged(st, WriteAttempt(st, path, type_, FALSE)) EXCEPT !.types[path] = type_]

\* ITIRTypeInference.visit, lines 345-364: what is done with the result of the
\* node's visitor method
visit_result(r, path) ==
    LET st == r.st
        result == r.val
    IN  IF st.err # "none" THEN r
        ELSE IF IsTypeSpec(result)
        THEN IF st.types[path] # None
                /\ is_compatible_type(st.types[path], result) # "true"
             THEN Ret(Raise(Logged(st, WriteAttempt(st, path, result, TRUE)),
                            IF is_compatible_type(st.types[path], result) = "false"
                            THEN "AssertionError" ELSE "ValueError"), None)
             ELSE Ret([Logged(st, WriteAttempt(st, path, result, FALSE))
                          EXCEPT !.types[path] = result], result)
        ELSE IF IsRule(result) THEN r
        ELSE IF result.k = "Callable"
        THEN Ret(AddRule(st, ObservableTypeInferenceRule(result.type_rule, path, TRUE)),
                 RuleRef(Len(st.rules) + 1))
        ELSE Ret(Raise(st, "AssertionError"), None)

\* ctx | {p.id: a for p, a in zip(params, args, strict=True)}
BindParams(ctx, params, args) ==
    LET names == {params[i].id : i \in 1..Len(params)}
        last(n) == CHOOSE i \in 1..Len(params) :
                       /\ params[i].id = n
                       /\ \A j \in 1..Len(params) : params[j].id = n => j <= i
    IN  [n \in DOMAIN ctx \cup names |-> IF n \in names THEN args[last(n)] ELSE ctx[n]]

is_call_to(node, fun) ==
    node.kind = "FunCall" /\ node.fun.kind = "SymRef" /\ node.fun.id = fun

TYPEBUILTINS == {"int32", "int64", "float32", "float64", "bool"}

\* The methods below call one another only through call, which dispatches on
\* the name of the callee.
RECURSIVE call(_, _)


\* on_type_ready without the test of self.inferred_type: the callback is always
\* called at once
on_type_ready_eager(st, ref, cb) ==
    IF st.err # "none" THEN st
    ELSE call("mark_ready", <<st, cb.sub, cb.i, st.rules[ref].inferred_type>>)

\* ObservableTypeInferenceRule.on_type_ready; cb is partial(mark_ready, i) of the
\* on_inferred call sub
on_type_ready(st, ref, cb) ==
    IF st.err # "none" THEN st
    ELSE IF st.rules[ref].inferred_type # None
    THEN call("mark_ready", <<st, cb.sub, cb.i, st.rules[ref].inferred_type>>)
    ELSE [st EXCEPT !.rules[ref].callbacks = Append(@, cb)]

\* mark_ready(i, type_) of the on_inferred call sub; the callback of every
\* on_inferred call of the engine is the _infer_type_listener of a rule
mark_ready(st, sub, i, type_) ==
    IF st.err # "none" THEN st
    ELSE LET s1 == [st EXCEPT !.subs[sub].ready_args[i] = TRUE,
                              !.subs[sub].inferred_args[i] = type_]
             c == s1.subs[sub]
         IN  IF \A j \in 1..Len(c.ready_args) : c.ready_args[j]
             THEN LET s2 == [s1 EXCEPT
                        !.subs[sub].fired = @ + 1,
                        !.subs[sub].early =
                            @ \/ \E j \in 1..Len(c.args) : ~Resolved(s1, c.args[j])]
                  IN  call("infer_type_listener", <<s2, c.callback, c.inferred_args[1],
                                          Tail(c.inferred_args)>>)
             ELSE s1

on_inferred_from(st, sub, args, i) ==
    IF st.err # "none" \/ i > Len(args) THEN st
    ELSE call("on_inferred_from", <<
             IF IsRule(args[i]) THEN call("on_type_ready", <<st, args[i].ref, [sub |-> sub, i |-> i]>>)
             ELSE IF IsTypeSpec(args[i]) THEN call("mark_ready", <<st, sub, i, args[i]>>)
             ELSE Raise(st, "AssertionError"),
             sub, args, i + 1>>)

\* on_inferred(callback, *args), callback being the _infer_type_listener of the
\* rule `callback`.  late records that the call returned while some callback
\* whose targets are all resolved had not been invoked.
on_inferred(st, callback, args) ==
    IF st.err # "none" THEN st
    ELSE LET sub == Len(st.subs) + 1
             s1 == [st EXCEPT !.subs = Append(@,
                        [ready_args |-> Repeat(Len(args), FALSE),
                         inferred_args |-> Repeat(Len(args), None),
                         callback |-> callback, args |-> args,
                         fired |-> 0, early |-> FALSE])]
             s2 == call("on_inferred_from", <<s1, sub, args, 1>>)
         IN  IF s2.err # "none" THEN s2
             ELSE [s2 EXCEPT !.late = @ \/ \E s \in 1..Len(s2.subs) :
                        /\ s2.subs[s].fired = 0
                        /\ \A j \in 1..Len(s2.subs[s].args) :
                               Resolved(s2, s2.subs[s].args[j])]

\* for cb in self.callbacks: cb(self.inferred_type), from index i on
run_callbacks(st, ref, i) ==
    IF st.err # "none" \/ i > Len(st.rules[ref].callbacks) THEN st
    ELSE LET cb == st.rules[ref].callbacks[i]
         IN  call("run_callbacks", <<call("mark_ready", <<st, cb.sub, cb.i, st.rules[ref].inferred_type>>),
                           ref, i + 1>>)

\* for alias in self.aliases: _set_node_type(alias, self.inferred_type)
set_alias_types(st, ref, i) ==
    IF st.err # "none" \/ i > Len(st.rules[ref].aliases) THEN st
    ELSE call("set_alias_types", <<set_node_type(st, st.rules[ref].aliases[i],
                                       st.rules[ref].inferred_type), ref, i + 1>>)

\* ObservableTypeInferenceRule.infer_type
infer_type(return_type, args) == FunctionType(args, <<>>, <<>>, return_type)

\* ObservableTypeInferenceRule._infer_type_listener
infer_type_listener(st, ref, return_type, args) ==
    IF st.err # "none" THEN st
    ELSE LET s1 == [st EXCEPT !.rules[ref].inferred_type = infer_type(return_type, args),
                              !.rules[ref].resolutions = @ + 1]
             s2 == call("run_callbacks", <<s1, ref, 1>>)
         IN  IF s2.err # "none" \/ ~s2.rules[ref].store_inferred_type_in_node THEN s2
             ELSE IF s2.rules[ref].node = NoNode THEN Raise(s2, "AssertionError")
             ELSE call("set_alias_types", <<
                      set_node_type(s2, s2.rules[ref].node, s2.rules[ref].inferred_type),
                      ref, 1>>)

\* rules.type_inference_rules: the builtins the model types
BuiltinNames == <<"make_tuple", "plus">>

BuiltinIndex(name) == CHOOSE i \in 1..Len(BuiltinNames) : BuiltinNames[i] = name

\* rules.type_inference_rules[name](*args): [err, val]
builtin_type_rule(name, args) ==
    IF name = "make_tuple"
    THEN IF \A i \in 1..Len(args) : IsTypeSpec(args[i])
         THEN [err |-> "none", val |-> TupleType(args)]
         ELSE [err |-> "AssertionError", val |-> None]
    ELSE IF Len(args) = 2 /\ IsTypeSpec(args[1]) /\ args[1].k = "ScalarType"
            /\ args[1] = args[2]
         THEN [err |-> "none", val |-> args[1]]
         ELSE [err |-> "AssertionError", val |-> None]

\* type_info.accepts_args(fun_type, with_args=args, with_kwargs={})
accepts_args(fun_type, args) ==
    LET params == fun_type.pos_only_args \o Values(fun_type.pos_or_kw_args)
    IN  /\ fun_type.kw_only_args = <<>>
        /\ Len(args) = Len(params)
        /\ \A i \in 1..Len(args) : args[i] = params[i]

\* self.type_rule(*args)
apply_type_rule(st, type_rule, args) ==
    IF st.err # "none" THEN Ret(st, None)
    ELSE IF type_rule.c = "fun"
    THEN \* visit_Lambda.fun
         LET node == NodeAt(st.prog, type_rule.node)
         IN  IF Len(node.params) # Len(args) THEN Ret(Raise(st, "ValueError"), None)
             ELSE call("visit", <<st, type_rule.node \o <<0>>,
                        BindParams(type_rule.ctx, node.params, args)>>)
    ELSE IF type_rule.c = "rule"
    THEN call("rule_call", <<st, type_rule.ref, args>>)
    ELSE IF type_rule.c = "from_function_type"
    THEN \* _type_inference_rule_from_function_type.type_rule
         IF accepts_args(type_rule.fun_type, args)
         THEN Ret(st, type_rule.fun_type.returns)
         ELSE Ret(Raise(st, "AssertionError"), None)
    ELSE LET b == builtin_type_rule(type_rule.name, args)
         IN  IF b.err = "none" THEN Ret(st, b.val) ELSE Ret(Raise(st, b.err), None)

\* ObservableTypeInferenceRule.__call__
rule_call(st, ref, args) ==
    IF st.err # "none" THEN Ret(st, None)
    ELSE LET r == call("apply_type_rule", <<st, st.rules[ref].type_rule, args>>)
             s1 == r.st
             wrap == IsCallable(r.val)
             s2 == IF wrap
                   THEN AddRule(s1, ObservableTypeInferenceRule(
                            IF IsRule(r.val) THEN [c |-> "rule", ref |-> r.val.ref]
                            ELSE r.val.type_rule, NoNode, TRUE))
                   ELSE s1
             return_type == IF wrap THEN RuleRef(Len(s1.rules) + 1) ELSE r.val
         IN  IF s1.err # "none" THEN r
             ELSE Ret(call("on_inferred", <<s2, ref, <<return_type>> \o args>>), return_type)

visit_Literal(st, path) ==
    IF st.types[path] # None /\ st.types[path].k = "ScalarType"
    THEN Ret(st, st.types[path])
    ELSE Ret(Raise(st, "AssertionError"), None)

visit_SymRef(st, path, ctx) ==
    LET node == NodeAt(st.prog, path)
    IN  IF st.allow /\ node.id \notin DOMAIN ctx
        THEN IF st.types[path] # None
             THEN IF st.types[path].k = "FunctionType"
                  THEN Ret(st, Callable([c |-> "from_function_type",
                                         fun_type |-> st.types[path]]))
                  ELSE Ret(st, st.types[path])
             ELSE Ret(st, DeferredType)
        ELSE IF node.id \notin DOMAIN ctx THEN Ret(Raise(st, "AssertionError"), None)
        ELSE IF IsRule(ctx[node.id])
        THEN Ret([st EXCEPT !.rules[ctx[node.id].ref].aliases = Append(@, path)],
                 ctx[node.id])
        ELSE Ret(st, ctx[node.id])

\* visit_Lambda (and visit_FunctionDefinition)
visit_Lambda(st, path, ctx) ==
    Ret(AddRule(st, ObservableTypeInferenceRule(
                        [c |-> "fun", node |-> path, ctx |-> ctx], path, TRUE)),
        RuleRef(Len(st.rules) + 1))

\* self.visit(node.args, ctx=ctx): the results of args[i..], appended to acc
visit_list(st, path, i, ctx, acc) ==
    IF st.err # "none" THEN Ret(st, acc)
    ELSE IF i > Len(NodeAt(st.prog, path).args) THEN Ret(st, acc)
    ELSE LET r == call("visit", <<st, path \o <<i>>, ctx>>)
         IN  call("visit_list", <<r.st, path, i + 1, ctx, Append(acc, r.val)>>)

visit_FunCall(st, path, ctx) ==
    LET node == NodeAt(st.prog, path)
    IN  IF is_call_to(node, "cast_")
        THEN IF Len(node.args) # 2 THEN Ret(Raise(st, "ValueError"), None)
             ELSE IF node.args[2].kind = "SymRef" /\ node.args[2].id \in TYPEBUILTINS
             THEN Ret(st, ScalarType(node.args[2].id))
             ELSE Ret(Raise(st, "AssertionError"), None)
        ELSE IF is_call_to(node, "tuple_get")
        THEN IF Len(node.args) # 2 THEN Ret(Raise(st, "ValueError"), None)
             ELSE LET s1 == call("visit", <<st, path \o <<2>>, ctx>>).st
                      index_literal == node.args[1]
                      t == s1.types[path \o <<2>>]
                  IN  IF s1.err # "none" THEN Ret(s1, None)
                      ELSE IF index_literal.kind # "Literal"
                      THEN Ret(Raise(s1, "AssertionError"), None)
                      ELSE IF index_literal.value \notin IntStrings
                      THEN Ret(Raise(s1, "ValueError"), None)
                      ELSE IF t = None \/ t.k # "TupleType"
                      THEN Ret(Raise(s1, "AssertionError"), None)
                      ELSE LET index == ParseInt(index_literal.value)
                               n == Len(t.types)
                           IN  \* list indexing: a negative index counts from the end
                               IF index >= n \/ index < -n
                               THEN Ret(Raise(s1, "IndexError"), None)
                               ELSE Ret(s1, t.types[IF index >= 0 THEN index + 1
                                                    ELSE n + index + 1])
        ELSE LET f == call("visit", <<st, path \o <<0>>, ctx>>)
                 a == call("visit_list", <<f.st, path, 1, ctx, <<>>>>)
                 s2 == a.st
             IN  IF s2.err # "none" THEN Ret(s2, None)
                 ELSE IF ~IsRule(f.val)
                 THEN \* a TypeSpec is not callable
                      Ret(Raise(s2, "TypeError"), None)
                 ELSE LET r == call("rule_call", <<s2, f.val.ref, a.val>>)
                      IN  IF r.st.err # "none" THEN r
                          ELSE IF IsRule(r.val)
                          THEN IF r.st.rules[r.val.ref].node # NoNode
                               THEN Ret(Raise(r.st, "AssertionError"), None)
                               ELSE Ret([r.st EXCEPT !.rules[r.val.ref].node = path],
                                        r.val)
                          ELSE r

\* ITIRTypeInference.visit
visit(st, path, ctx) ==
    IF st.err # "none" THEN Ret(st, None)
    ELSE LET kind == NodeAt(st.prog, path).kind
         IN  visit_result(
                 IF kind = "Literal" THEN visit_Literal(st, path)
                 ELSE IF kind = "SymRef" THEN visit_SymRef(st, path, ctx)
                 ELSE IF kind = "Lambda" THEN visit_Lambda(st, path, ctx)
                 ELSE IF kind = "FunCall" THEN call("visit_FunCall", <<st, path, ctx>>)
                 ELSE Ret(Raise(st, "NotImplementedError"), None),
                 path)

\* dispatch of a call to the method named op with the arguments a
call(op, a) ==
    CASE op = "visit" -> visit(a[1], a[2], a[3])
      [] op = "visit_list" -> visit_list(a[1], a[2], a[3], a[4], a[5])
      [] op = "visit_FunCall" -> visit_FunCall(a[1], a[2], a[3])
      [] op = "rule_call" -> rule_call(a[1], a[2], a[3])
      [] op = "apply_type_rule" -> apply_type_rule(a[1], a[2], a[3])
      [] op = "on_inferred" -> on_inferred(a[1], a[2], a[3])
      [] op = "on_inferred_from" -> on_inferred_from(a[1], a[2], a[3], a[4])
      [] op = "mark_ready" -> mark_ready(a[1], a[2], a[3], a[4])
      [] op = "on_type_ready" -> on_type_ready(a[1], a[2], a[3])
      [] op = "infer_type_listener" -> infer_type_listener(a[1], a[2], a[3], a[4])
      [] op = "run_callbacks" -> run_callbacks(a[1], a[2], a[3])
      [] op = "set_alias_types" -> set_alias_types(a[1], a[2], a[3])

\* the rules apply creates for rules.type_inference_rules, in key order
RECURSIVE BuiltinRules(_)
BuiltinRules(n) ==
    IF n = 0 THEN <<>>
    ELSE Append(BuiltinRules(n - 1),
                ObservableTypeInferenceRule([c |-> "builtin", name |-> BuiltinNames[n]],
                                            NoNode, FALSE))

\* ITIRTypeInference.apply on a tree whose nodes carry the types `types`
apply(prog, types, allow_undeclared_symbols) ==
    LET st == [prog |-> prog, allow |-> allow_undeclared_symbols, types |-> types,
               rules |-> BuiltinRules(Len(BuiltinNames)),
               subs |-> <<>>, writes |-> <<>>, err |-> "none", late |-> FALSE]
        ctx == [name \in Range(BuiltinNames) |-> RuleRef(BuiltinIndex(name))]
    IN  call("visit", <<st, <<>>, ctx>>).st

(***************************************************************************)
(* The type universe the compatibility predicate is exercised on           *)
(***************************************************************************)
IteratorTypes ==
    {IteratorType(p, d, e) : p \in {Unknown, <<IDim>>, <<JDim>>},
                             d \in {<<>>, <<IDim>>, <<JDim>>},
                             e \in {IntType, FloatType}}

CoreTypes == {IntType, FloatType, DeferredType,
              IteratorType(Unknown, <<>>, IntType),
              IteratorType(<<IDim>>, <<IDim>>, IntType),
              IteratorType(<<JDim>>, <<JDim>>, IntType)}

TupleTypes ==
    {TupleType(ts) : ts \in SeqsUpTo(CoreTypes, MaxArity)}
    \cup {TupleType(<<TupleType(<<x>>), y>>) : x \in {IntType, FloatType},
                                              y \in {IntType, TupleType(<<>>)}}

FunctionTypes ==
    {FunctionType(ps, kw, ko, r) :
        ps \in SeqsUpTo({IntType, IteratorType(Unknown, <<>>, IntType),
                         IteratorType(<<IDim>>, <<IDim>>, IntType)}, MaxArity),
        kw \in {<<>>, << <<"a", IntType>> >>, << <<"b", IntType>> >>,
                << <<"a", FloatType>> >>},
        ko \in {<<>>, << <<"c", IntType>> >>},
        r \in {IntType, FloatType, TupleType(<<IntType>>)}}

TypeUniverse == {IntType, FloatType, DeferredType} \cup IteratorTypes
                \cup TupleTypes \cup FunctionTypes

(***************************************************************************)
(* SpecCompat: _is_compatible_type applied to every pair of the universe   *)
(***************************************************************************)
compat_vars == <<type_a, type_b, is_compatible>>

infer_vars == <<tree, calls, allow_undeclared, in_place, given_type, node_type, rules, subs, writes, late, error>>

pipe_vars == <<ir, pc, unroll_reduce, mergeasfop_uids, iteration, changes, last_equal>>

inline_vars == <<lambda_call, preserve_opcount, inline_lift, caller_eligible, called,
                 substituted, renamed, new_node>>

stage_vars == <<options, is_program, line, loop_count, ran, exception, returned>>

closure_vars == <<domain_type, input_types, output_type, stencil_rule, closure_type,
                  closure_error>>

write_vars == <<held, write_error>>

node_vars == <<node_a, node_b, equal_ab, hash_a, hash_b>>

lit_vars == <<offset_provider, stored_types, dimensions, literal_node, literal_type, literal_err>>

gtfn_vars == <<_cache, workflow_runs, workflow_returns, calls_by_key, last_call>>

trace_vars == <<testee, actual, trace_state>>

vars == <<compat_vars, infer_vars, pipe_vars, inline_vars, stage_vars, closure_vars,
         write_vars,
         node_vars,
         lit_vars,
         gtfn_vars,
         trace_vars>>

IdleCompat == type_a = None /\ type_b = None /\ is_compatible = "none"

IdlePipeline ==
    /\ ir = None /\ pc = "idle" /\ unroll_reduce = FALSE /\ mergeasfop_uids = 0
    /\ iteration = 0 /\ changes = 0 /\ last_equal = FALSE

IdleClosure ==
    /\ domain_type = None /\ input_types = <<>> /\ output_type = None
    /\ stencil_rule = "none" /\ closure_type = None /\ closure_error = "idle"

IdleWrites ==
    held = <<>> /\ write_error = "idle"

IdleNodes ==
    /\ node_a = None /\ node_b = None /\ equal_ab = "idle"
    /\ hash_a = None /\ hash_b = None

IdleLiterals ==
    /\ offset_provider = <<>>
    /\ stored_types = <<>>
    /\ dimensions = <<>>
    /\ literal_node = None
    /\ literal_type = None
    /\ literal_err = "idle"

IdleExecutor ==
    /\ _cache = <<>> /\ workflow_runs = <<>> /\ workflow_returns = <<>>
    /\ calls_by_key = <<>> /\ last_call = None

IdleTrace ==
    /\ testee = None /\ actual = <<>> /\ trace_state = "idle"

IdleStages ==
    /\ options = <<>> /\ is_program = FALSE /\ line = 0 /\ loop_count = 0 /\ ran = <<>>
    /\ exception = "none" /\ returned = FALSE

IdleInline ==
    /\ lambda_call = None /\ preserve_opcount = FALSE /\ inline_lift = FALSE
    /\ caller_eligible = <<>> /\ called = "idle" /\ substituted = <<>> /\ renamed = <<>>
    /\ new_node = None

IdleInfer ==
    /\ tree = None /\ calls = 0 /\ allow_undeclared = FALSE /\ in_place = FALSE
    /\ given_type = <<>> /\ node_type = <<>>
    /\ rules = <<>> /\ subs = <<>> /\ writes = <<>> /\ late = FALSE /\ error = "none"

InitCompat ==
    /\ type_a \in TypeUniverse
    /\ type_b \in TypeUniverse
    /\ is_compatible = "none"
    /\ IdleInfer
    /\ IdlePipeline
    /\ IdleInline
    /\ IdleStages
    /\ IdleClosure /\ IdleWrites /\ IdleNodes /\ IdleLiterals /\ IdleExecutor /\ IdleTrace

CheckCompatible ==
    /\ is_compatible = "none"
    /\ type_a # None
    /\ is_compatible' = is_compatible_type(type_a, type_b)
    /\ UNCHANGED <<type_a, type_b, infer_vars, pipe_vars, inline_vars, stage_vars, closure_vars,
                write_vars, node_vars, lit_vars, gtfn_vars, trace_vars>>

NextCompat == CheckCompatible

SpecCompat == InitCompat /\ [][NextCompat]_vars

(***************************************************************************)
(* SpecInfer: infer called, up to MaxInferCalls times in a row, on the     *)
(* trees of InferTrees                                                     *)
(***************************************************************************)
L_int == Literal("1", IntType)
L_float == Literal("2.0", FloatType)

\* `let name = value in body`
Let(name, value, body) == FunCall(Lambda(<<Sym(name)>>, body), <<value>>)

Identity == Lambda(<<Sym("x")>>, SymRef("x"))
First == Lambda(<<Sym("a"), Sym("b")>>, SymRef("a"))
First3 == Lambda(<<Sym("a"), Sym("b"), Sym("c")>>, SymRef("a"))

Atoms == {L_int, L_float, SymRef("y")}

Functions == {Identity, First, Lambda(<<Sym("x")>>, L_int),
              Lambda(<<Sym("x")>>, Lambda(<<Sym("z")>>, SymRef("x"))),
              SymRef("make_tuple"), SymRef("plus"), SymRef("y"), L_int}

\* one Lambda bound to f and applied at two call sites
TwoCallSites(lam, a1, a2) ==
    Let("f", lam, FunCall(First, <<FunCall(SymRef("f"), <<a1>>),
                                   FunCall(SymRef("f"), <<a2>>)>>))

\* f referenced once more after the call that resolves it
LateAlias(lam, a1) ==
    Let("f", lam, FunCall(First, <<FunCall(SymRef("f"), <<a1>>), SymRef("f")>>))

\* f handed to another function before it is applied twice
HandedOver(a0, a1, a2) ==
    Let("f", Identity,
        FunCall(First3, <<FunCall(Lambda(<<Sym("g")>>, a0), <<SymRef("f")>>),
                          FunCall(SymRef("f"), <<a1>>),
                          FunCall(SymRef("f"), <<a2>>)>>))

\* f handed to a function that never applies it, f itself never applied
NeverApplied(a0) == Let("f", Identity, FunCall(Lambda(<<Sym("g")>>, a0), <<SymRef("f")>>))

\* x bound twice, the reference inside the inner binding
Shadowed(a1, a2) == Let("x", a1, Let("x", a2, SymRef("x")))

\* a parameter named as the builtin fun and applied as fun(1, make_tuple(1, 2.0))
ShadowedBuiltin(fun) ==
    Let(fun, First, FunCall(SymRef(fun), <<L_int, FunCall(SymRef("make_tuple"),
                                                          <<L_int, L_float>>)>>))

\* f refers to y, is defined under one binding of y and called under another
Captured(a1, a2) ==
    Let("y", a1, Let("f", Lambda(<<Sym("a")>>, SymRef("y")),
                     Let("y", a2, FunCall(SymRef("f"), <<L_int>>))))

ScopeTrees ==
    {Shadowed(a1, a2) : a1 \in {L_int, L_float}, a2 \in {L_int, L_float}}
    \cup {ShadowedBuiltin(fun) : fun \in {"plus", "tuple_get"}}
    \cup {Captured(a1, a2) : a1 \in {L_int, L_float}, a2 \in {L_int, L_float}}

InferTrees ==
    Atoms
    \cup ScopeTrees
    \cup {FunCall(f, as) : f \in Functions, as \in SeqsUpTo(Atoms, 2)}
    \cup {FunCall(FunCall(Lambda(<<Sym("x")>>, Lambda(<<Sym("z")>>, SymRef(r))), <<a1>>),
                   <<a2>>) : r \in {"x", "z"}, a1 \in Atoms, a2 \in Atoms}
    \cup {FunCall(SymRef("tuple_get"),
                   <<Literal(i, IntType), FunCall(SymRef("make_tuple"), <<a1, a2>>)>>) :
              i \in {"-1", "0", "1", "2"}, a1 \in Atoms, a2 \in Atoms}
    \cup {FunCall(SymRef("cast_"), <<a1, SymRef(t)>>) :
              a1 \in Atoms, t \in {"float64", "y"}}
    \cup {TwoCallSites(lam, a1, a2) :
              lam \in {Identity, Lambda(<<Sym("x")>>, L_int)}, a1 \in Atoms, a2 \in Atoms}
    \cup {LateAlias(Identity, a1) : a1 \in Atoms}
    \cup {HandedOver(a0, a1, a2) : a0 \in {L_int}, a1 \in Atoms, a2 \in Atoms}
    \cup {NeverApplied(a0) : a0 \in Atoms}

InitInfer ==
    /\ tree \in InferTrees
    /\ calls = 0
    /\ allow_undeclared = FALSE
    /\ in_place = FALSE
    /\ given_type = InitialTypes(tree)
    /\ node_type = InitialTypes(tree)
    /\ rules = <<>> /\ subs = <<>> /\ writes = <<>> /\ late = FALSE /\ error = "none"
    /\ IdleCompat
    /\ IdlePipeline
    /\ IdleInline
    /\ IdleStages
    /\ IdleClosure /\ IdleWrites /\ IdleNodes /\ IdleLiterals /\ IdleExecutor /\ IdleTrace

\* mutant: the copy of lines 327-328 is never made
never_copies(inplace) == TRUE

\* `if not inplace: node = copy.deepcopy(node)`: whether the node visited,
\* and returned, is the node given
visits_given_node(inplace) == inplace

\* infer(tree, offset_provider=..., inplace=inplace,
\*       allow_undeclared_symbols=allow_undeclared_symbols) on the tree returned
\* by the previous call
Infer(inplace, allow_undeclared_symbols) ==
    /\ tree # None
    /\ calls < MaxInferCalls
    /\ error = "none"
    /\ LET st == apply(tree, node_type, allow_undeclared_symbols)
       IN  /\ node_type' = st.types
           /\ given_type' = IF visits_given_node(inplace) THEN st.types ELSE node_type
           /\ rules' = st.rules
           /\ subs' = st.subs
           /\ writes' = st.writes
           /\ late' = st.late
           /\ error' = st.err
    /\ calls' = calls + 1
    /\ allow_undeclared' = allow_undeclared_symbols
    /\ in_place' = inplace
    /\ UNCHANGED <<tree, compat_vars, pipe_vars, inline_vars, stage_vars, closure_vars, write_vars,
                node_vars, lit_vars, gtfn_vars, trace_vars>>

NextInfer == \E inplace \in BOOLEAN, allow \in BOOLEAN : Infer(inplace, allow)

SpecInfer == InitInfer /\ [][NextInfer]_vars

(***************************************************************************)
(* The lambda inliner (functional/iterator/transforms/inline_lambdas.py).  *)
(* Trees are compared structurally, as are IR nodes.                       *)
(***************************************************************************)
OffsetLiteral(value) == [kind |-> "OffsetLiteral", value |-> value]

RECURSIVE Sum(_)
Sum(s) == IF s = <<>> THEN 0 ELSE s[1] + Sum(Tail(s))

\* the elements s[i] with keep[i], in order
RECURSIVE Pick(_, _)
Pick(s, keep) ==
    IF s = <<>> THEN <<>>
    ELSE (IF keep[1] THEN <<s[1]>> ELSE <<>>) \o Pick(Tail(s), Tail(keep))

ParamIds(lam) == {lam.params[i].id : i \in 1..Len(lam.params)}

\* node.pre_walk_values().if_isinstance(ir.SymRef).getattr("id").to_set()
RECURSIVE SymRefIds(_)
SymRefIds(node) ==
    CASE node.kind = "SymRef" -> {node.id}
      [] node.kind = "Lambda" -> SymRefIds(node.expr)
      [] node.kind = "FunCall" ->
             SymRefIds(node.fun)
                 \cup UNION {SymRefIds(node.args[i]) : i \in 1..Len(node.args)}
      [] OTHER -> {}

\* node.pre_walk_values().if_isinstance(ir.Sym).getattr("id").to_set()
RECURSIVE SymIds(_)
SymIds(node) ==
    CASE node.kind = "Lambda" -> ParamIds(node) \cup SymIds(node.expr)
      [] node.kind = "FunCall" ->
             SymIds(node.fun) \cup UNION {SymIds(node.args[i]) : i \in 1..Len(node.args)}
      [] OTHER -> {}

\* CountSymbolRefs.visit for the one symbol name; active: name \in active_refs
RECURSIVE count_refs(_, _, _)
count_refs(node, name, active) ==
    CASE node.kind = "SymRef" -> IF active /\ node.id = name THEN 1 ELSE 0
      [] node.kind = "Lambda" ->
             count_refs(node.expr, name, active /\ name \notin ParamIds(node))
      [] node.kind = "FunCall" ->
             count_refs(node.fun, name, active)
                 + Sum(Table([i \in 1..Len(node.args) |->
                                  count_refs(node.args[i], name, active)]))
      [] OTHER -> 0

\* CountSymbolRefs.apply
CountSymbolRefs(node, symbol_names) ==
    [name \in Range(symbol_names) |-> count_refs(node, name, TRUE)]

\* RenameSymbols().visit(node, name_map=name_map): a symbol is renamed where it
\* is declared and where it refers to such a declaration
RECURSIVE RenameSymbols(_, _, _)
RenameSymbols(node, name_map, active) ==
    LET rename(id) == IF id \in active /\ id \in DOMAIN name_map THEN name_map[id] ELSE id
    IN  CASE node.kind = "SymRef" -> SymRef(rename(node.id))
          [] node.kind = "Lambda" ->
                 LET inner == active \cup ParamIds(node)
                 IN  Lambda(Table([i \in 1..Len(node.params) |->
                                Sym(IF node.params[i].id \in DOMAIN name_map
                                    THEN name_map[node.params[i].id]
                                    ELSE node.params[i].id)]),
                            RenameSymbols(node.expr, name_map, inner))
          [] node.kind = "FunCall" ->
                 FunCall(RenameSymbols(node.fun, name_map, active),
                         Table([i \in 1..Len(node.args) |->
                                    RenameSymbols(node.args[i], name_map, active)]))
          [] OTHER -> node

\* RemapSymbolRefs().visit(node, symbol_map=symbol_map): the parameters of a
\* lambda shadow the map inside its body
RECURSIVE RemapSymbolRefs(_, _)
RemapSymbolRefs(node, symbol_map) ==
    CASE node.kind = "SymRef" ->
             IF node.id \in DOMAIN symbol_map THEN symbol_map[node.id] ELSE node
      [] node.kind = "Lambda" ->
             Lambda(node.params,
                    RemapSymbolRefs(node.expr,
                        [id \in DOMAIN symbol_map \ ParamIds(node) |-> symbol_map[id]]))
      [] node.kind = "FunCall" ->
             FunCall(RemapSymbolRefs(node.fun, symbol_map),
                     Table([i \in 1..Len(node.args) |->
                                RemapSymbolRefs(node.args[i], symbol_map)]))
      [] OTHER -> node

\* inline_lambda.new_name
RECURSIVE new_name(_, _)
new_name(name, taken) == IF name \in taken THEN new_name(name \o "_", taken) ELSE name

\* for sym in clashes: name_map[sym] = new_name(sym)
RECURSIVE build_name_map(_, _, _)
build_name_map(clashes, taken, name_map) ==
    IF clashes = {} THEN name_map
    ELSE LET sym == CHOOSE c \in clashes : TRUE
             name == new_name(sym, taken \cup Range(name_map))
         IN  build_name_map(clashes \ {sym}, taken, (sym :> name) @@ name_map)

\* common_pattern_matcher.is_applied_lift
is_applied_lift(arg) ==
    /\ arg.kind = "FunCall"
    /\ arg.fun.kind = "FunCall"
    /\ arg.fun.fun.kind = "SymRef"
    /\ arg.fun.fun.id = "lift"

\* inline_lambda with every parameter eligible, whatever the options
all_eligible(node, opcount_preserving, force_inline_lift, eligible_params) ==
    Repeat(Len(node.fun.params), TRUE)

\* lines 39-50 of inline_lambda with the test of opcount_preserving left out
always_counted_flags(node, opcount_preserving, eligible_params) ==
    LET n == Len(node.fun.params)
        given == IF eligible_params = <<>> THEN Repeat(n, TRUE) ELSE eligible_params
    IN  Table([i \in 1..n |->
                   IF /\ count_refs(node.fun.expr, node.fun.params[i].id, TRUE) # 1
                      /\ node.args[i].kind \notin {"SymRef", "Literal"}
                   THEN FALSE ELSE given[i]])

\* inline_lambda, lines 39-50: eligible_params as it stands at line 52;
\* eligible_params = <<>> stands for None (and for the empty list)
counted_flags(node, opcount_preserving, eligible_params) ==
    LET params == node.fun.params
        args == node.args
        n == Len(params)
        given == IF eligible_params = <<>> THEN Repeat(n, TRUE) ELSE eligible_params
        ref_counts == CountSymbolRefs(node.fun.expr, Table([i \in 1..n |-> params[i].id]))
    IN  Table([i \in 1..n |->
                   IF /\ opcount_preserving
                      /\ ref_counts[params[i].id] # 1
                      /\ args[i].kind \notin {"SymRef", "Literal"}
                   THEN FALSE ELSE given[i]])

\* inline_lambda without lines 52-60
eligible_without_lift(node, opcount_preserving, force_inline_lift, eligible_params) ==
    counted_flags(node, opcount_preserving, eligible_params)

\* inline_lambda, lines 39-60: eligible_params as it stands at line 62
eligible_flags(node, opcount_preserving, force_inline_lift, eligible_params) ==
    LET args == node.args
        counted == counted_flags(node, opcount_preserving, eligible_params)
    IN  Table([i \in 1..Len(args) |->
                   IF /\ force_inline_lift
                      /\ args[i].kind = "FunCall"
                      /\ args[i].fun.kind = "FunCall"
                      /\ args[i].fun.fun.kind = "SymRef"
                      /\ args[i].fun.fun.id = "lift"
                   THEN TRUE ELSE counted[i]])

\* inline_lambda, lines 65-88: name_map, <<>> when nothing clashes
rename_map(node, eligible) ==
    LET n == Len(node.fun.params)
        refs == UNION {SymRefIds(node.args[i]) : i \in {j \in 1..n : eligible[j]}}
        syms == SymIds(node.fun.expr)
        clashes == refs \cap syms
    IN  IF clashes # {} THEN build_name_map(clashes, refs \cup syms, <<>>) ELSE <<>>

\* inline_lambda
inline_lambda(node, opcount_preserving, force_inline_lift, eligible_params) ==
    LET params == node.fun.params
        args == node.args
        n == Len(params)
        eligible == eligible_flags(node, opcount_preserving, force_inline_lift,
                                   eligible_params)
        name_map == rename_map(node, eligible)
        expr == IF name_map # <<>> THEN RenameSymbols(node.fun.expr, name_map, {})
                ELSE node.fun.expr
        last(id) == CHOOSE i \in 1..n :
                        /\ eligible[i] /\ params[i].id = id
                        /\ \A j \in 1..n : (eligible[j] /\ params[j].id = id) => j <= i
        symbol_map == [id \in {params[i].id : i \in {j \in 1..n : eligible[j]}} |->
                           args[last(id)]]
        new_expr == RemapSymbolRefs(expr, symbol_map)
        kept == Table([i \in 1..n |-> ~eligible[i]])
    IN  IF n # 0 /\ \A i \in 1..n : ~eligible[i] THEN node
        ELSE IF \A i \in 1..n : eligible[i] THEN new_expr
        ELSE FunCall(Lambda(Pick(params, kept), new_expr), Pick(args, kept))

\* InlineLambdas.apply: visit_FunCall on every call, children first
RECURSIVE InlineLambdas(_, _, _)
InlineLambdas(node, opcount_preserving, force_inline_lift) ==
    CASE node.kind = "FunCall" ->
             LET visited ==
                     FunCall(InlineLambdas(node.fun, opcount_preserving, force_inline_lift),
                             Table([i \in 1..Len(node.args) |->
                                        InlineLambdas(node.args[i], opcount_preserving,
                                                      force_inline_lift)]))
             IN  IF visited.fun.kind = "Lambda"
                 THEN inline_lambda(visited, opcount_preserving, force_inline_lift, <<>>)
                 ELSE visited
      [] node.kind = "Lambda" ->
             Lambda(node.params,
                    InlineLambdas(node.expr, opcount_preserving, force_inline_lift))
      [] OTHER -> node

(***************************************************************************)
(* The passes of the two fixpoint loops whose code is not part of the      *)
(* sources at hand, each reduced to the rewrite the specification states   *)
(* for it.                                                                 *)
(***************************************************************************)
Call(name, args) == FunCall(SymRef(name), args)

IntLiteral(n) == Literal(ToString(n), IntType)

\* an int32 literal whose value the model can compute with
IsIntLiteral(node) ==
    /\ node.kind = "Literal" /\ node.type = IntType
    /\ \E n \in 0..MaxLiteral : ToString(n) = node.value

IntValue(node) == CHOOSE n \in 0..MaxLiteral : ToString(n) = node.value

\* ConstantFolding.apply: a call of plus whose arguments are all literals is
\* replaced by the computed literal, arguments first
RECURSIVE ConstantFolding(_)
ConstantFolding(node) ==
    CASE node.kind = "FunCall" ->
             LET visited == FunCall(ConstantFolding(node.fun),
                                    Table([i \in 1..Len(node.args) |->
                                               ConstantFolding(node.args[i])]))
             IN  IF /\ is_call_to(visited, "plus") /\ Len(visited.args) = 2
                    /\ IsIntLiteral(visited.args[1]) /\ IsIntLiteral(visited.args[2])
                 THEN IntLiteral(IntValue(visited.args[1]) + IntValue(visited.args[2]))
                 ELSE visited
      [] node.kind = "Lambda" -> Lambda(node.params, ConstantFolding(node.expr))
      [] OTHER -> node

\* CollapseTuple.apply: tuple_get(i, make_tuple(e0, ..., en)) -> ei
RECURSIVE CollapseTuple(_)
CollapseTuple(node) ==
    CASE node.kind = "FunCall" ->
             LET visited == FunCall(CollapseTuple(node.fun),
                                    Table([i \in 1..Len(node.args) |->
                                               CollapseTuple(node.args[i])]))
             IN  IF /\ is_call_to(visited, "tuple_get") /\ Len(visited.args) = 2
                    /\ IsIntLiteral(visited.args[1])
                    /\ is_call_to(visited.args[2], "make_tuple")
                    /\ IntValue(visited.args[1]) < Len(visited.args[2].args)
                 THEN visited.args[2].args[IntValue(visited.args[1]) + 1]
                 ELSE visited
      [] node.kind = "Lambda" -> Lambda(node.params, CollapseTuple(node.expr))
      [] OTHER -> node

\* as_fieldop(stencil)(args...)
is_applied_as_fieldop(node) ==
    node.kind = "FunCall" /\ is_call_to(node.fun, "as_fieldop") /\ Len(node.fun.args) = 1

\* uids.sequential_id(prefix="__fasfop")
sequential_id(uids) == "__fasfop_" \o ToString(uids)

\* The parameters and arguments of the fused field operator for args[i..]: an
\* argument that is a symbol keeps its name, any other gets a fresh name.
\* acc = [params, args, refs, uids]; refs[j] is the reference standing for the
\* j-th argument read so far.
RECURSIVE fuse_params(_, _, _)
fuse_params(args, i, acc) ==
    IF i > Len(args) THEN acc
    ELSE LET arg == args[i]
             name == IF arg.kind = "SymRef" THEN arg.id ELSE sequential_id(acc.uids)
             known == \E j \in 1..Len(acc.params) : acc.params[j].id = name
         IN  fuse_params(args, i + 1,
                 [params |-> IF known THEN acc.params ELSE Append(acc.params, Sym(name)),
                  args |-> IF known THEN acc.args ELSE Append(acc.args, arg),
                  refs |-> Append(acc.refs, SymRef(name)),
                  uids |-> IF arg.kind = "SymRef" THEN acc.uids ELSE acc.uids + 1])

\* The arguments args[i..] of a field operator, read for fusion: an argument
\* that is itself an applied field operator is replaced by its lifted stencil
\* applied to its own arguments, which become arguments of the fused operator.
RECURSIVE fuse_args(_, _, _)
fuse_args(args, i, acc) ==
    IF i > Len(args) THEN acc
    ELSE LET arg == args[i]
         IN  IF is_applied_as_fieldop(arg)
             THEN LET inner == fuse_params(arg.args, 1, [acc EXCEPT !.refs = <<>>])
                  IN  fuse_args(args, i + 1,
                          [inner EXCEPT !.refs = Append(acc.refs,
                               FunCall(Call("lift", <<arg.fun.args[1]>>), inner.refs))])
             ELSE LET one == fuse_params(<<arg>>, 1, [acc EXCEPT !.refs = <<>>])
                  IN  fuse_args(args, i + 1,
                          [one EXCEPT !.refs = Append(acc.refs, one.refs[1])])

\* FuseAsFieldOp.apply(node, uids=uids): [ir, uids].  An applied field operator
\* one of whose arguments is an applied field operator is fused with it,
\* arguments first.
RECURSIVE FuseAsFieldOp(_, _)
RECURSIVE fuse_each(_, _, _)
fuse_each(args, i, acc) ==
    IF i > Len(args) THEN acc
    ELSE LET r == FuseAsFieldOp(args[i], acc.uids)
         IN  fuse_each(args, i + 1, [ir |-> Append(acc.ir, r.ir), uids |-> r.uids])

FuseAsFieldOp(node, uids) ==
    CASE node.kind = "FunCall" ->
             LET f == FuseAsFieldOp(node.fun, uids)
                 a == fuse_each(node.args, 1, [ir |-> <<>>, uids |-> f.uids])
                 visited == FunCall(f.ir, a.ir)
             IN  IF /\ is_applied_as_fieldop(visited)
                    /\ \E i \in 1..Len(visited.args) : is_applied_as_fieldop(visited.args[i])
                 THEN LET fused == fuse_args(visited.args, 1,
                                       [params |-> <<>>, args |-> <<>>, refs |-> <<>>,
                                        uids |-> a.uids])
                      IN  [ir |-> FunCall(
                                      Call("as_fieldop",
                                           <<Lambda(fused.params,
                                                    FunCall(visited.fun.args[1],
                                                            fused.refs))>>),
                                      fused.args),
                           uids |-> fused.uids]
                 ELSE [ir |-> visited, uids |-> a.uids]
      [] node.kind = "Lambda" ->
             LET e == FuseAsFieldOp(node.expr, uids)
             IN  [ir |-> Lambda(node.params, e.ir), uids |-> e.uids]
      [] OTHER -> [ir |-> node, uids |-> uids]

\* reduce(fun, init)(args...)
is_applied_reduce(node) ==
    node.kind = "FunCall" /\ is_call_to(node.fun, "reduce") /\ Len(node.fun.args) = 2

\* fun(... fun(fun(init, args[0]), args[1]) ..., args[i - 1]), args[j] standing
\* for the j-th neighbor list_get(j, arg) of every argument
RECURSIVE unrolled_sum(_, _, _, _)
unrolled_sum(fun, init, args, i) ==
    IF i = 0 THEN init
    ELSE FunCall(fun, <<unrolled_sum(fun, init, args, i - 1)>>
                      \o Table([k \in 1..Len(args) |->
                                    Call("list_get", <<OffsetLiteral(ToString(i - 1)), args[k]>>)]))

\* UnrollReduce.apply: every applied reduce becomes the explicit sum of
\* NeighborCount terms, arguments first
RECURSIVE UnrollReduce(_)
UnrollReduce(node) ==
    CASE node.kind = "FunCall" ->
             LET visited == FunCall(UnrollReduce(node.fun),
                                    Table([i \in 1..Len(node.args) |->
                                               UnrollReduce(node.args[i])]))
             IN  IF is_applied_reduce(visited)
                 THEN unrolled_sum(visited.fun.args[1], visited.fun.args[2], visited.args,
                               NeighborCount)
                 ELSE visited
      [] node.kind = "Lambda" -> Lambda(node.params, UnrollReduce(node.expr))
      [] OTHER -> node

\* CollapseListGet().visit:
\*   list_get(i, neighbors(o, it)) -> deref(shift(o, i)(it))
\*   list_get(i, make_const_list(e)) -> e
RECURSIVE CollapseListGet(_)
CollapseListGet(node) ==
    CASE node.kind = "FunCall" ->
             LET visited == FunCall(CollapseListGet(node.fun),
                                    Table([i \in 1..Len(node.args) |->
                                               CollapseListGet(node.args[i])]))
                 list == visited.args[2]
             IN  IF is_call_to(visited, "list_get") /\ Len(visited.args) = 2
                 THEN IF is_call_to(list, "neighbors") /\ Len(list.args) = 2
                      THEN Call("deref",
                                <<FunCall(Call("shift", <<list.args[1], visited.args[1]>>),
                                          <<list.args[2]>>)>>)
                      ELSE IF is_call_to(list, "make_const_list") /\ Len(list.args) = 1
                      THEN list.args[1]
                      ELSE visited
                 ELSE visited
      [] node.kind = "Lambda" -> Lambda(node.params, CollapseListGet(node.expr))
      [] OTHER -> node

\* shift(offsets...)(it)
is_applied_shift(node) ==
    node.kind = "FunCall" /\ is_call_to(node.fun, "shift") /\ Len(node.args) = 1

\* NormalizeShifts().visit: shift(b...)(shift(a...)(it)) -> shift(a..., b...)(it)
RECURSIVE NormalizeShifts(_)
NormalizeShifts(node) ==
    CASE node.kind = "FunCall" ->
             LET visited == FunCall(NormalizeShifts(node.fun),
                                    Table([i \in 1..Len(node.args) |->
                                               NormalizeShifts(node.args[i])]))
             IN  IF is_applied_shift(visited) /\ is_applied_shift(visited.args[1])
                 THEN FunCall(Call("shift", visited.args[1].fun.args \o visited.fun.args),
                              visited.args[1].args)
                 ELSE visited
      [] node.kind = "Lambda" -> Lambda(node.params, NormalizeShifts(node.expr))
      [] OTHER -> node

(***************************************************************************)
(* SpecPipeline: the two bounded fixpoint loops of apply_common_transforms *)
(* (pass_manager.py), one step per iteration, each loop started on a tree  *)
(* of its family.  Every call of a lambda in these trees has as many        *)
(* arguments as the lambda has parameters.                                  *)
(***************************************************************************)
\* for _ in range(10), main loop
MainLoopRange == 10

\* for _ in range(10), unroll-reduce loop
UnrollLoopRange == 10

\* lines 71-83: the body of the main loop, (tree, uids) -> [ir, uids]
MainLoopBody(input, uids) ==
    FuseAsFieldOp(CollapseTuple(ConstantFolding(InlineLambdas(input, TRUE, FALSE))), uids)

\* `inlined is ir`: identity, false of every rebuilt tree
compared_by_identity(rewritten, input) == FALSE

\* `inlined == inlined`
compared_with_itself(rewritten, input) == rewritten = rewritten

\* `inlined == ir` (line 85), `unrolled == ir` (line 115)
trees_equal(rewritten, input) == rewritten = input

\* lam_k = \<p>k. <p>k(lam_k+1) for k < n, lam_n = \<p>n. <p>n
RECURSIVE Applier(_, _, _)
Applier(p, k, n) ==
    LET h == p \o ToString(k)
    IN  IF k >= n THEN Lambda(<<Sym(h)>>, SymRef(h))
        ELSE Lambda(<<Sym(h)>>, FunCall(SymRef(h), <<Applier(p, k + 1, n)>>))

\* a tree every sweep of the inliner exposes one more call of a lambda in
Chain(n, m) == FunCall(Applier("f", 1, n), <<Applier("g", 1, m)>>)

as_fieldop(stencil, args) == FunCall(Call("as_fieldop", <<stencil>>), args)

Operands == {SymRef("x"), SymRef("y"), IntLiteral(1), IntLiteral(2),
             Call("plus", <<IntLiteral(1), IntLiteral(2)>>),
             Call("plus", <<SymRef("y"), SymRef("y")>>)}

Stencils == {SymRef("deref"),
             Lambda(<<Sym("a")>>, Call("deref", <<SymRef("a")>>)),
             Lambda(<<Sym("a")>>, Call("plus", <<Call("deref", <<SymRef("a")>>),
                                                 Call("deref", <<SymRef("a")>>)>>))}

MainLoopTrees ==
    {Chain(n, m) : n \in 1..MaxChain, m \in 1..MaxChain}
    \cup {FunCall(lam, <<a>>) :
              lam \in {Identity, Lambda(<<Sym("x")>>, Call("plus", <<SymRef("x"), SymRef("x")>>)),
                       Lambda(<<Sym("x")>>, Lambda(<<Sym("y")>>,
                                                   Call("plus", <<SymRef("x"), SymRef("y")>>)))},
              a \in Operands}
    \cup {FunCall(Call("tuple_get", <<IntLiteral(i), Call("make_tuple", <<lam, a>>)>>), <<b>>) :
              i \in {0, 1}, lam \in {Identity}, a \in {SymRef("y"), Identity},
              b \in Operands}
    \cup {as_fieldop(s1, <<a, as_fieldop(s2, <<b>>)>>) :
              s1 \in {Lambda(<<Sym("a"), Sym("b")>>,
                             Call("plus", <<Call("deref", <<SymRef("a")>>),
                                            Call("deref", <<SymRef("b")>>)>>))},
              s2 \in Stencils,
              a \in {SymRef("inp"), Call("plus", <<SymRef("x"), SymRef("y")>>)},
              b \in {SymRef("inp"), SymRef("x"), as_fieldop(SymRef("deref"), <<SymRef("y")>>),
                     FunCall(Identity, <<Call("plus", <<IntLiteral(1), IntLiteral(2)>>)>>)}}

Iterators == {SymRef("it"),
              FunCall(Call("shift", <<OffsetLiteral("E2V"), OffsetLiteral("0")>>),
                      <<SymRef("it")>>)}

Lists == {Call("neighbors", <<OffsetLiteral("V2E"), it>>) : it \in Iterators}
             \cup {Call("make_const_list", <<IntLiteral(1)>>), SymRef("list")}

Reductions == {FunCall(Call("reduce", <<SymRef("plus"), IntLiteral(0)>>), <<l>>) : l \in Lists}

UnrollLoopTrees ==
    Reductions
    \cup {Call("plus", <<r1, r2>>) : r1 \in Reductions, r2 \in {IntLiteral(1), SymRef("x")}}
    \cup {FunCall(Call("reduce", <<SymRef("plus"), r>>), <<l>>) :
              r \in Reductions, l \in {Call("make_const_list", <<IntLiteral(1)>>)}}
    \cup {Let("r", Call("reduce", <<SymRef("plus"), IntLiteral(0)>>),
              FunCall(SymRef("r"), <<l>>)) : l \in Lists}
    \cup {SymRef("x"), Call("deref", <<SymRef("it")>>)}

InitPipeline ==
    /\ \/ pc = "main_loop" /\ ir \in MainLoopTrees
       \/ pc = "before_unroll_loop" /\ ir \in UnrollLoopTrees
    /\ unroll_reduce \in BOOLEAN
    /\ mergeasfop_uids = 0
    /\ iteration = 0 /\ changes = 0 /\ last_equal = FALSE
    /\ IdleCompat
    /\ IdleInfer
    /\ IdleInline
    /\ IdleStages
    /\ IdleClosure /\ IdleWrites /\ IdleNodes /\ IdleLiterals /\ IdleExecutor /\ IdleTrace

\* one iteration of the loop of lines 68-89; the else clause of the for loop
\* raises when the 10th iteration ends without break
MainLoopIteration ==
    /\ pc = "main_loop"
    /\ iteration < MainLoopRange
    /\ LET inlined == MainLoopBody(ir, mergeasfop_uids)
           break == trees_equal(inlined.ir, ir)
       IN  /\ mergeasfop_uids' = inlined.uids
           /\ ir' = IF break THEN ir ELSE inlined.ir
           /\ pc' = IF break THEN "after_main_loop"
                    ELSE IF iteration + 1 = MainLoopRange THEN "RuntimeError"
                    ELSE "main_loop"
           /\ changes' = changes + (IF inlined.ir = ir THEN 0 ELSE 1)
           /\ last_equal' = (inlined.ir = ir)
    /\ iteration' = iteration + 1
    /\ UNCHANGED <<unroll_reduce, compat_vars, infer_vars, inline_vars, stage_vars, closure_vars,
                write_vars, node_vars, lit_vars, gtfn_vars, trace_vars>>

\* if unroll_reduce: (line 112)
EnterUnrollLoop ==
    /\ pc = "before_unroll_loop"
    /\ pc' = IF unroll_reduce THEN "unroll_loop" ELSE "after_unroll_loop"
    /\ UNCHANGED <<ir, unroll_reduce, mergeasfop_uids, iteration, changes, last_equal,
                   compat_vars, infer_vars, inline_vars, stage_vars, closure_vars,
                write_vars, node_vars, lit_vars, gtfn_vars, trace_vars>>

\* one iteration of the loop of lines 113-121
UnrollLoopIteration ==
    /\ pc = "unroll_loop"
    /\ iteration < UnrollLoopRange
    /\ LET unrolled == UnrollReduce(ir)
           break == trees_equal(unrolled, ir)
       IN  /\ ir' = IF break THEN ir ELSE NormalizeShifts(CollapseListGet(unrolled))
           /\ pc' = IF break THEN "after_unroll_loop"
                    ELSE IF iteration + 1 = UnrollLoopRange THEN "RuntimeError"
                    ELSE "unroll_loop"
           /\ changes' = changes + (IF unrolled = ir THEN 0 ELSE 1)
           /\ last_equal' = (unrolled = ir)
    /\ iteration' = iteration + 1
    /\ UNCHANGED <<unroll_reduce, mergeasfop_uids, compat_vars, infer_vars, inline_vars, stage_vars, closure_vars,
                write_vars, node_vars, lit_vars, gtfn_vars, trace_vars>>

NextPipeline == MainLoopIteration \/ EnterUnrollLoop \/ UnrollLoopIteration

SpecPipeline == InitPipeline /\ [][NextPipeline]_vars

Stages == {"main_loop", "after_main_loop", "before_unroll_loop", "unroll_loop",
           "after_unroll_loop", "RuntimeError"}

Running == pc \in {"main_loop", "before_unroll_loop", "unroll_loop"}

\* The call takes its next step.  A step of NextPipeline is possible exactly
\* when Running holds, and every such step changes pc or iteration, so the
\* steps of Proceed that change <<pc, iteration>> are, in a behaviour of
\* SpecPipeline, the steps of NextPipeline.
Proceed == Running /\ pc' \in Stages /\ iteration' \in {iteration, iteration + 1}

\* the call runs on one thread that never waits: a step that can be taken is
\* taken
FairSpecPipeline == SpecPipeline /\ WF_<<pc, iteration>>(Proceed)

(***************************************************************************)
(* Claims about the pass driver                                            *)
(***************************************************************************)
LoopStages == {"main_loop", "unroll_loop"}

\* a step taken inside a loop is one more application of its body
IterationCounted == pc \in LoopStages => iteration' = iteration + 1

\* C1: each of the two fixpoint loops applies its body at most 10 times; while
\* a loop runs every application so far changed the tree; a loop is left
\* normally exactly when an application's compared rewrite equals its input,
\* which is then the first such application; RuntimeError is raised exactly
\* when 10 applications all changed the tree; every step of a loop is one more
\* application, and the call eventually leaves the loop.
C1_FixpointLoopsAreBounded ==
    /\ [](/\ iteration <= 10
          /\ (pc \in LoopStages => iteration < 10 /\ changes = iteration)
          /\ (pc = "after_main_loop" => last_equal /\ changes = iteration - 1)
          /\ (pc = "after_unroll_loop" /\ unroll_reduce
                  => last_equal /\ changes = iteration - 1)
          /\ (pc = "RuntimeError" <=> iteration = 10 /\ changes = 10))
    /\ [][IterationCounted]_vars
    /\ <>(pc \notin LoopStages \cup {"before_unroll_loop"})

\* the main loop gave up after 10 applications that all changed the tree
C1_Witness == pc = "RuntimeError" /\ iteration = 10 /\ changes = 10

Inferred == calls > 0

Succeeded == calls > 0 /\ error = "none"

ResolvedNow(arg) == IsTypeSpec(arg) \/ (IsRule(arg) /\ rules[arg.ref].inferred_type # None)

ResolvedType(arg) == IF IsRule(arg) THEN rules[arg.ref].inferred_type ELSE arg

AllResolved(s) == \A j \in 1..Len(subs[s].args) : ResolvedNow(subs[s].args[j])

\* C3: the callback of every on_inferred call whose targets have all resolved has
\* been invoked exactly once, with the resolved types of the targets in argument
\* order, however often a rule among the targets was applied.
C3_CallbackInvokedExactlyOnce ==
    Inferred =>
        \A s \in 1..Len(subs) :
            AllResolved(s) =>
                /\ subs[s].fired = 1
                /\ \A j \in 1..Len(subs[s].args) :
                       subs[s].inferred_args[j] = ResolvedType(subs[s].args[j])

\* C4: no callback is invoked while one of its targets is an unresolved
\* observable; no on_inferred call (the call in which a rule application resolves
\* targets) returns leaving a callback uninvoked whose targets are all resolved;
\* hence the function type of a rule consists of resolved types only.
C4_CallbackOnlyWhenAllTargetsResolved ==
    Inferred =>
        /\ ~late
        /\ \A s \in 1..Len(subs) :
               /\ ~subs[s].early
               /\ subs[s].fired > 0 =>
                      /\ AllResolved(s)
                      /\ \A j \in 1..Len(subs[s].args) : IsTypeSpec(subs[s].inferred_args[j])
        /\ \A r \in 1..Len(rules) :
               rules[r].inferred_type # None =>
                   /\ IsTypeSpec(rules[r].inferred_type.returns)
                   /\ \A j \in 1..Len(rules[r].inferred_type.pos_only_args) :
                          IsTypeSpec(rules[r].inferred_type.pos_only_args[j])

\* a callback that had to wait for an observable and was invoked when it resolved
C4_Witness ==
    /\ Inferred
    /\ \E s \in 1..Len(subs) :
           /\ subs[s].fired > 0
           /\ \E j \in 1..Len(subs[s].args) :
                  /\ IsRule(subs[s].args[j])
                  /\ \E c \in 1..Len(rules[subs[s].args[j].ref].callbacks) :
                         rules[subs[s].args[j].ref].callbacks[c] = [sub |-> s, i |-> j]

\* the type an atom of InferTrees has as an argument
ArgType(a) == IF a.kind = "Literal" THEN a.type ELSE DeferredType

ArgTyped(a) == a.kind = "Literal" \/ allow_undeclared

SharedLambdas == {Identity, Lambda(<<Sym("x")>>, L_int)}

\* paths of the two call sites f(a1), f(a2) in TwoCallSites
Site1 == <<0, 0, 1>>
Site2 == <<0, 0, 2>>

C6_AliasesCarryTheRuleType ==
    Succeeded =>
        \A r \in 1..Len(rules) :
            (rules[r].store_inferred_type_in_node /\ rules[r].inferred_type # None)
            => \A i \in 1..Len(rules[r].aliases) :
                   node_type[rules[r].aliases[i]] = rules[r].inferred_type

ExprKinds == {"Literal", "OffsetLiteral", "AxisLiteral", "SymRef", "Lambda", "FunCall"}

\* C7: after a successful infer every expression node of the tree has a type.
C7_EveryExpressionTyped ==
    Succeeded =>
        \A p \in Paths(tree) :
            NodeAt(tree, p).kind \in ExprKinds => node_type[p] # None

\* C8: a write that proposes a type incompatible with the type the node carries
\* raises an AssertionError, is the last thing the call does to any type field,
\* and leaves the node's type as it was.
C8_IncompatibleWriteAborts ==
    \A i \in 1..Len(writes) :
        (/\ writes[i].existing # None
         /\ is_compatible_type(writes[i].existing, writes[i].proposed) = "false")
        => /\ writes[i].raised
           /\ error = "AssertionError"
           /\ i = Len(writes)
           /\ node_type[writes[i].path] = writes[i].existing

C8_Witness ==
    /\ Len(writes) > 0
    /\ writes[Len(writes)].raised
    /\ writes[Len(writes)].existing # None
    /\ is_compatible_type(writes[Len(writes)].existing,
                          writes[Len(writes)].proposed) = "false"
    /\ error = "AssertionError"

\* C9: a node whose stored type is DeferredType is refined without failure when
\* inference derives a concrete type for it.
C9_DeferredIsRefined ==
    \A i \in 1..Len(writes) :
        (/\ writes[i].existing = DeferredType
         /\ IsTypeSpec(writes[i].proposed)
         /\ writes[i].proposed # DeferredType)
        => ~writes[i].raised

(***************************************************************************)
(* C10: _is_compatible_type is total and symmetric and agrees with the     *)
(* reference (wildcard-aware on iterators, component-wise on tuples and    *)
(* functions of equal arity, structural equality otherwise; false, never   *)
(* an exception, on arity or kind mismatch).                               *)
(***************************************************************************)
RECURSIVE RefCompatible(_, _)
RefCompatible(a, b) ==
    IF a.k = "IteratorType" /\ b.k = "IteratorType"
    THEN /\ a.element_type = b.element_type
         /\ \/ a.position_dims = b.position_dims
            \/ a.position_dims = Unknown
            \/ b.position_dims = Unknown
         /\ \/ a.defined_dims = b.defined_dims
            \/ a.defined_dims = <<>>
            \/ b.defined_dims = <<>>
    ELSE IF a.k = "TupleType" /\ b.k = "TupleType"
    THEN /\ Len(a.types) = Len(b.types)
         /\ \A i \in 1..Len(a.types) : RefCompatible(a.types[i], b.types[i])
    ELSE IF a.k = "FunctionType" /\ b.k = "FunctionType"
    THEN /\ Len(a.pos_only_args) = Len(b.pos_only_args)
         /\ Len(a.pos_or_kw_args) = Len(b.pos_or_kw_args)
         /\ Len(a.kw_only_args) = Len(b.kw_only_args)
         /\ \A i \in 1..Len(a.pos_only_args) :
                RefCompatible(a.pos_only_args[i], b.pos_only_args[i])
         /\ \A i \in 1..Len(a.pos_or_kw_args) :
                RefCompatible(a.pos_or_kw_args[i][2], b.pos_or_kw_args[i][2])
         /\ \A i \in 1..Len(a.kw_only_args) :
                RefCompatible(a.kw_only_args[i][2], b.kw_only_args[i][2])
         /\ RefCompatible(a.returns, b.returns)
    ELSE a = b

C10_CompatibleIsTotalSymmetricReference ==
    is_compatible # "none" =>
        /\ is_compatible = B3(RefCompatible(type_a, type_b))
        /\ is_compatible = is_compatible_type(type_b, type_a)

(***************************************************************************)
(* Claims about repeated inference (SpecInfer)                             *)
(***************************************************************************)
\* a second call of infer, with the same options, on the tree a successful
\* first call returned
SecondInfer == calls = 1 /\ error = "none" /\ calls' = 2 /\ allow_undeclared' = allow_undeclared

InferIsIdempotent == SecondInfer => error' = "none" /\ node_type' = node_type

applied_lift(it) == FunCall(Call("lift", <<SymRef("f")>>), <<it>>)

\* bodies of a lambda of the one parameter x
UnaryBodies ==
    {SymRef("x"), IntLiteral(1),
     Call("plus", <<SymRef("x"), SymRef("x")>>),
     Call("plus", <<SymRef("x"), SymRef("y")>>),
     Lambda(<<Sym("y")>>, Call("plus", <<SymRef("x"), SymRef("y")>>)),
     Lambda(<<Sym("y")>>, Call("plus", <<Call("plus", <<SymRef("x"), SymRef("y")>>),
                                         SymRef("y_")>>)),
     Lambda(<<Sym("x")>>, SymRef("x")),
     Call("plus", <<SymRef("x"), FunCall(Lambda(<<Sym("x")>>, SymRef("x")), <<SymRef("w")>>)>>),
     Call("plus", <<SymRef("x"), FunCall(Lambda(<<Sym("a")>>, IntLiteral(1)), <<SymRef("x")>>)>>)}

\* bodies of a lambda of the two parameters x and z
BinaryBodies ==
    {Call("plus", <<SymRef("x"), SymRef("z")>>),
     Call("plus", <<SymRef("x"), Call("plus", <<SymRef("z"), SymRef("z")>>)>>),
     Call("plus", <<Call("plus", <<SymRef("x"), SymRef("x")>>),
                    Call("plus", <<SymRef("z"), SymRef("z")>>)>>),
     Lambda(<<Sym("y")>>, Call("plus", <<SymRef("x"), SymRef("z")>>))}

InlineArgs ==
    {SymRef("y"), SymRef("z"), IntLiteral(1), Call("plus", <<SymRef("y"), SymRef("y")>>),
     applied_lift(SymRef("y")), Call("deref", <<SymRef("z")>>),
     Call("lift", <<SymRef("f")>>),
     FunCall(Call("shift", <<OffsetLiteral("E2V")>>), <<SymRef("y")>>),
     FunCall(Lambda(<<Sym("a")>>, SymRef("a")), <<Call("plus", <<SymRef("y"), SymRef("y")>>)>>)}

InlineCalls ==
    {FunCall(Lambda(<<Sym("x")>>, body), <<a>>) : body \in UnaryBodies, a \in InlineArgs}
    \cup {FunCall(Lambda(<<Sym("x"), Sym("z")>>, body), <<a, b>>) :
              body \in BinaryBodies, a \in InlineArgs, b \in InlineArgs}

InitInline ==
    /\ lambda_call \in InlineCalls
    /\ preserve_opcount \in BOOLEAN
    /\ inline_lift \in BOOLEAN
    /\ caller_eligible \in {<<>>} \cup [1..Len(lambda_call.args) -> BOOLEAN]
    /\ called = "none" /\ substituted = <<>> /\ renamed = <<>> /\ new_node = None
    /\ IdleCompat /\ IdleInfer /\ IdlePipeline /\ IdleStages /\ IdleClosure /\ IdleWrites /\ IdleNodes /\ IdleLiterals /\ IdleExecutor /\ IdleTrace

\* inline_lambda(lambda_call, opcount_preserving=..., force_inline_lift=...,
\*               eligible_params=...)
CallInlineLambda ==
    /\ called = "none"
    /\ called' = "inline_lambda"
    /\ substituted' = eligible_flags(lambda_call, preserve_opcount, inline_lift,
                                     caller_eligible)
    /\ renamed' = rename_map(lambda_call, substituted')
    /\ new_node' = inline_lambda(lambda_call, preserve_opcount, inline_lift,
                                 caller_eligible)
    /\ UNCHANGED <<lambda_call, preserve_opcount, inline_lift, caller_eligible,
                   compat_vars, infer_vars, pipe_vars, stage_vars, closure_vars,
                write_vars, node_vars, lit_vars, gtfn_vars, trace_vars>>

\* InlineLambdas.apply(lambda_call, opcount_preserving=..., force_inline_lift=...)
ApplyInlineLambdas ==
    /\ called = "none"
    /\ caller_eligible = <<>>
    /\ called' = "apply"
    /\ new_node' = InlineLambdas(lambda_call, preserve_opcount, inline_lift)
    /\ UNCHANGED <<lambda_call, preserve_opcount, inline_lift, caller_eligible,
                   substituted, renamed, compat_vars, infer_vars, pipe_vars, stage_vars, closure_vars,
                write_vars, node_vars, lit_vars, gtfn_vars, trace_vars>>

NextInline == CallInlineLambda \/ ApplyInlineLambdas

SpecInline == InitInline /\ [][NextInline]_vars

(***************************************************************************)
(* Claims about the lambda inliner (SpecInline)                            *)
(***************************************************************************)
\* the symbols a tree refers to without binding them
RECURSIVE FreeRefs(_)
FreeRefs(node) ==
    CASE node.kind = "SymRef" -> {node.id}
      [] node.kind = "Lambda" -> FreeRefs(node.expr) \ ParamIds(node)
      [] node.kind = "FunCall" ->
             FreeRefs(node.fun) \cup UNION {FreeRefs(node.args[i]) : i \in 1..Len(node.args)}
      [] OTHER -> {}

NewNames == {renamed[sym] : sym \in DOMAIN renamed}

\* C12: inline_lambda is capture-avoiding: the free symbols of every argument
\* substituted for a referenced parameter are free in the result, the symbols
\* free in the body other than the parameters are free in the result, and no
\* name chosen for a renamed binder is referenced in the body or an argument.
C12_InlineLambdaIsCaptureAvoiding ==
    called = "inline_lambda" =>
        LET fun == lambda_call.fun
            args == lambda_call.args
            n == Len(args)
        IN  /\ \A i \in 1..n :
                   substituted[i] /\ count_refs(fun.expr, fun.params[i].id, TRUE) >= 1
                       => FreeRefs(args[i]) \subseteq FreeRefs(new_node)
            /\ (FreeRefs(fun.expr) \ ParamIds(fun)) \subseteq FreeRefs(new_node)
            /\ NewNames \cap (SymRefIds(fun.expr)
                              \cup UNION {SymRefIds(args[i]) : i \in 1..n}) = {}

\* the parameters the opcount-preserving rule is stated to substitute: those
\* referenced at most once in the body or given a SymRef or Literal
AtMostOnceOrCheap(i) ==
    \/ count_refs(lambda_call.fun.expr, lambda_call.fun.params[i].id, TRUE) <= 1
    \/ lambda_call.args[i].kind \in {"SymRef", "Literal"}

\* C13: with opcount_preserving=True and force_inline_lift=False inline_lambda
\* substitutes exactly the parameters referenced at most once in the body or
\* given a SymRef or Literal; the others stay, with their arguments and in
\* order, as a lambda applied around the partially substituted body.
C13_SubstitutesAtMostOnceReferenced ==
    (called = "inline_lambda" /\ preserve_opcount /\ ~inline_lift /\ caller_eligible = <<>>) =>
        LET n == Len(lambda_call.args)
            others == Table([i \in 1..n |-> ~AtMostOnceOrCheap(i)])
        IN  /\ \A i \in 1..n : substituted[i] <=> AtMostOnceOrCheap(i)
            /\ (\E i \in 1..n : others[i]) =>
                   /\ new_node.kind = "FunCall"
                   /\ new_node.fun.kind = "Lambda"
                   /\ new_node.fun.params = Pick(lambda_call.fun.params, others)
                   /\ new_node.args = Pick(lambda_call.args, others)

\* an argument that is costly to duplicate
Costly(arg) ==
    /\ arg.kind \notin {"SymRef", "Literal"}
    /\ ~(inline_lift /\ is_applied_lift(arg))

\* C14 as stated: InlineLambdas.apply(call, opcount_preserving=True) does not
\* substitute a parameter referenced more than once in the body of the call
\* whose argument is costly: the parameter stays a parameter of the call, given
\* the same argument and referenced as before, so the argument occurs once; a
\* call of a lambda of one such parameter is returned unchanged.
C14_MultiplyReferencedIsKept ==
    (called = "apply" /\ preserve_opcount) =>
        \A i \in 1..Len(lambda_call.args) :
            (/\ count_refs(lambda_call.fun.expr, lambda_call.fun.params[i].id, TRUE) > 1
             /\ Costly(lambda_call.args[i]))
            => /\ new_node.kind = "FunCall"
               /\ new_node.fun.kind = "Lambda"
               /\ \E j \in 1..Len(new_node.args) :
                      /\ new_node.fun.params[j] = lambda_call.fun.params[i]
                      /\ new_node.args[j] = lambda_call.args[i]
               /\ count_refs(new_node.fun.expr, lambda_call.fun.params[i].id, TRUE)
                      >= count_refs(lambda_call.fun.expr, lambda_call.fun.params[i].id, TRUE)
               /\ Len(lambda_call.args) = 1 => new_node = lambda_call

\* the body and the arguments of the call once InlineLambdas.apply has dealt
\* with the lambda calls inside them
VisitedBody == InlineLambdas(lambda_call.fun.expr, preserve_opcount, inline_lift)

VisitedArg(i) == InlineLambdas(lambda_call.args[i], preserve_opcount, inline_lift)

VisitedCall ==
    FunCall(Lambda(lambda_call.fun.params, VisitedBody),
            Table([i \in 1..Len(lambda_call.args) |-> VisitedArg(i)]))

\* C14, amended: the references are counted in the body, and the argument is
\* taken, as they stand after the lambda calls inside them have been inlined.
\* Such a parameter stays a parameter of the call, given that argument and
\* referenced as before, and a call of a lambda of one such parameter is
\* returned with only the calls inside it inlined.
C14_MultiplyReferencedAfterInliningIsKept ==
    (called = "apply" /\ preserve_opcount) =>
        \A i \in 1..Len(lambda_call.args) :
            (/\ count_refs(VisitedBody, lambda_call.fun.params[i].id, TRUE) > 1
             /\ Costly(VisitedArg(i)))
            => /\ new_node.kind = "FunCall"
               /\ new_node.fun.kind = "Lambda"
               /\ \E j \in 1..Len(new_node.args) :
                      /\ new_node.fun.params[j] = lambda_call.fun.params[i]
                      /\ new_node.args[j] = VisitedArg(i)
               /\ count_refs(new_node.fun.expr, lambda_call.fun.params[i].id, TRUE)
                      >= count_refs(VisitedBody, lambda_call.fun.params[i].id, TRUE)
               /\ Len(lambda_call.args) = 1 => new_node = VisitedCall

C14_Witness ==
    /\ called = "apply" /\ preserve_opcount
    /\ Len(lambda_call.args) = 2
    /\ count_refs(VisitedBody, "x", TRUE) > 1 /\ Costly(VisitedArg(1))
    /\ VisitedArg(1) # lambda_call.args[1]
    /\ Len(new_node.args) = 1

\* no argument of the call refers to a symbol named like a parameter
ArgsAvoidParams ==
    UNION {SymRefIds(lambda_call.args[i]) : i \in 1..Len(lambda_call.args)}
        \cap ParamIds(lambda_call.fun) = {}

\* C15: with force_inline_lift=True a parameter given an applied lift,
\* lift(f)(args), is substituted whatever its number of references,
\* opcount_preserving and the eligibility the caller gave; a parameter given
\* anything else is treated as without force_inline_lift, the shape tested being
\* the one of is_applied_lift.
C15_AppliedLiftIsAlwaysInlined ==
    (called = "inline_lambda" /\ inline_lift) =>
        \A i \in 1..Len(lambda_call.args) :
            LET id == lambda_call.fun.params[i].id
                residual == \E j \in 1..Len(substituted) : ~substituted[j]
            IN  IF is_applied_lift(lambda_call.args[i])
                THEN /\ substituted[i]
                     /\ residual => /\ new_node.kind = "FunCall"
                                    /\ new_node.fun.kind = "Lambda"
                                    /\ id \notin ParamIds(new_node.fun)
                     /\ ArgsAvoidParams => id \notin FreeRefs(new_node)
                ELSE substituted[i]
                         = counted_flags(lambda_call, preserve_opcount, caller_eligible)[i]

C15_Witness ==
    /\ called = "inline_lambda" /\ inline_lift /\ preserve_opcount
    /\ Len(lambda_call.args) = 2
    /\ caller_eligible = <<FALSE, FALSE>>
    /\ is_applied_lift(lambda_call.args[1])
    /\ count_refs(lambda_call.fun.expr, "x", TRUE) > 1
    /\ substituted = <<TRUE, FALSE>>
    /\ "lift" \in FreeRefs(new_node.fun.expr)

\* the tree node with every reference to a parameter of the called lambda that
\* no binder in `bound` shadows replaced by the argument given for it
RECURSIVE Replaced(_, _)
Replaced(node, bound) ==
    LET params == lambda_call.fun.params
        position(id) == CHOOSE i \in 1..Len(params) :
                            /\ params[i].id = id
                            /\ \A j \in 1..Len(params) : params[j].id = id => j <= i
    IN  CASE node.kind = "SymRef" ->
                 IF node.id \in ParamIds(lambda_call.fun) \ bound
                 THEN lambda_call.args[position(node.id)]
                 ELSE node
          [] node.kind = "Lambda" ->
                 Lambda(node.params, Replaced(node.expr, bound \cup ParamIds(node)))
          [] node.kind = "FunCall" ->
                 FunCall(Replaced(node.fun, bound),
                         Table([i \in 1..Len(node.args) |-> Replaced(node.args[i], bound)]))
          [] OTHER -> node

Y_plus_Y == Call("plus", <<SymRef("y"), SymRef("y")>>)

\* C16: with opcount_preserving=False inline_lambda returns the body of the
\* lambda (its clashing binders renamed) with every reference to a parameter
\* that no inner binder shadows replaced by the parameter's argument, and no
\* lambda call around it; (\x. x)(y) gives y, (\x. x + x)(y + y) gives
\* y + y + y + y, also through InlineLambdas.apply.
C16_FullInliningSubstitutesEveryParameter ==
    (called \in {"inline_lambda", "apply"} /\ ~preserve_opcount /\ caller_eligible = <<>>) =>
        /\ called = "inline_lambda" =>
               /\ \A i \in 1..Len(substituted) : substituted[i]
               /\ renamed = <<>> => new_node = Replaced(lambda_call.fun.expr, {})
               /\ renamed # <<>> =>
                      new_node = Replaced(RenameSymbols(lambda_call.fun.expr, renamed, {}), {})
        /\ lambda_call = FunCall(Identity, <<SymRef("y")>>) => new_node = SymRef("y")
        /\ lambda_call = FunCall(Lambda(<<Sym("x")>>, Call("plus", <<SymRef("x"), SymRef("x")>>)),
                                 <<Y_plus_Y>>)
               => new_node = Call("plus", <<Y_plus_Y, Y_plus_Y>>)

C16_Witness ==
    /\ called = "inline_lambda" /\ ~preserve_opcount /\ caller_eligible = <<>>
    /\ Len(lambda_call.args) = 2
    /\ count_refs(lambda_call.fun.expr, "x", TRUE) = 2
    /\ count_refs(lambda_call.fun.expr, "z", TRUE) = 2
    /\ lambda_call.args = <<Y_plus_Y, Call("deref", <<SymRef("z")>>)>>
    /\ new_node = Call("plus", <<Call("plus", <<Y_plus_Y, Y_plus_Y>>),
                                 Call("plus", <<Call("deref", <<SymRef("z")>>),
                                                Call("deref", <<SymRef("z")>>)>>)>>)

(***************************************************************************)
(* SpecStages: one call of apply_common_transforms (pass_manager.py:33-128)*)
(* followed statement by statement.  The passes are the environment of the *)
(* function: a pass called either returns a tree or raises, and whether    *)
(* the tree a loop compares equals the loop's input is left open.  A pass  *)
(* that returns, returns an itir.Program (the assertion of line 127 holds).*)
(***************************************************************************)
Pass(name, arguments, next) ==
    [kind |-> "pass", pass |-> name, arguments |-> arguments, next |-> next]

\* an if statement whose body is entered whatever the option
unconditional(option, then, else) ==
    [kind |-> "if", option |-> option, then |-> then, else |-> then]

If(option, then, else) == [kind |-> "if", option |-> option, then |-> then, else |-> else]

\* `for _ in range(10)` with its else clause
For(range, body, else) == [kind |-> "for", range |-> range, body |-> body, else |-> else]

\* `if <rewritten> == ir: break`, the loop going on at `continue` otherwise
IfEqualBreak(break, continue) == [kind |-> "if_equal", break |-> break, continue |-> continue]

RaiseStatement(e) == [kind |-> "raise", exception |-> e]

\* the statements of apply_common_transforms, by line
Code ==
    (48 :> [kind |-> "assert", next |-> 53])
    @@ (53 :> Pass("MergeLet", "", 54))
    @@ (54 :> Pass("InlineFundefs", "", 56))
    @@ (56 :> Pass("prune_unreferenced_fundefs", "", 57))
    @@ (57 :> Pass("NormalizeShifts", "", 61))
    @@ (61 :> Pass("InlineLambdas", "opcount_preserving=True, force_inline_lambda_args=True", 62))
    @@ (62 :> Pass("infer_domain", "", 68))
    @@ (68 :> For(MainLoopRange, 71, 89))
    @@ (71 :> Pass("InlineLambdas", "opcount_preserving=True", 72))
    @@ (72 :> Pass("ConstantFolding", "", 75))
    @@ (75 :> Pass("CollapseTuple", "", 81))
    @@ (81 :> Pass("FuseAsFieldOp", "", 85))
    @@ (85 :> IfEqualBreak(92, 68))
    @@ (89 :> RaiseStatement("RuntimeError"))
    @@ (92 :> If("common_subexpression_elimination", 93, 97))
    @@ (93 :> Pass("CommonSubexpressionElimination", "", 94))
    @@ (94 :> Pass("MergeLet", "", 95))
    @@ (95 :> Pass("InlineLambdas", "opcount_preserving=True", 97))
    @@ (97 :> If("extract_temporaries", 98, 104))
    @@ (98 :> Pass("infer", "inplace=True", 99))
    @@ (99 :> Pass("create_global_tmps", "", 104))
    @@ (104 :> If("unconditionally_collapse_tuples", 105, 107))
    @@ (105 :> Pass("CollapseTuple", "ignore_tuple_size=True", 107))
    @@ (107 :> Pass("NormalizeShifts", "", 109))
    @@ (109 :> Pass("FuseMaps", "", 110))
    @@ (110 :> Pass("CollapseListGet", "", 112))
    @@ (112 :> If("unroll_reduce", 113, 123))
    @@ (113 :> For(UnrollLoopRange, 114, 121))
    @@ (114 :> Pass("UnrollReduce", "", 115))
    @@ (115 :> IfEqualBreak(123, 118))
    @@ (118 :> Pass("CollapseListGet", "", 119))
    @@ (119 :> Pass("NormalizeShifts", "", 113))
    @@ (121 :> RaiseStatement("RuntimeError"))
    @@ (123 :> Pass("InlineLambdas",
                    "opcount_preserving=True, force_inline_lambda_args=force_inline_lambda_args",
                    127))
    @@ (127 :> [kind |-> "return"])

OptionNames == {"common_subexpression_elimination", "extract_temporaries",
                "unconditionally_collapse_tuples", "unroll_reduce"}

\* what a pass may raise
PassErrors == {"AssertionError", "TypeError"}

\* the exceptions caught around the statement at line l: the function has no
\* try statement
swallowing_handlers(l) == PassErrors

handlers(l) == {}

InitStages ==
    /\ options \in [OptionNames -> BOOLEAN]
    /\ is_program \in BOOLEAN
    /\ line = 48 /\ loop_count = 0 /\ ran = <<>> /\ exception = "none" /\ returned = FALSE
    /\ IdleCompat /\ IdleInfer /\ IdlePipeline /\ IdleInline /\ IdleClosure /\ IdleWrites /\ IdleNodes /\ IdleLiterals /\ IdleExecutor /\ IdleTrace

StageFrame ==
    UNCHANGED <<options, is_program, compat_vars, infer_vars, pipe_vars, inline_vars,
                closure_vars, write_vars, node_vars, lit_vars, gtfn_vars,
                trace_vars>>

\* the statement at line raises e
Throw(e) ==
    IF e \in handlers(line)
    THEN /\ line' = Code[line].next /\ UNCHANGED <<exception, loop_count>>
    ELSE /\ exception' = e /\ UNCHANGED <<line, loop_count>>

\* line 48: assert isinstance(ir, itir.Program)
AssertProgram ==
    /\ exception = "none" /\ ~returned /\ Code[line].kind = "assert"
    /\ IF is_program THEN line' = Code[line].next /\ UNCHANGED exception
       ELSE exception' = "AssertionError" /\ UNCHANGED line
    /\ UNCHANGED <<loop_count, ran, returned>>
    /\ StageFrame

\* ir = <pass>(ir, ...): the pass returns, or raises e
CallPass ==
    /\ exception = "none" /\ ~returned /\ Code[line].kind = "pass"
    /\ \E outcome \in {"returns"} \cup PassErrors :
           /\ ran' = Append(ran, [pass |-> Code[line].pass,
                                  arguments |-> Code[line].arguments,
                                  line |-> line, outcome |-> outcome])
           /\ IF outcome = "returns"
              THEN /\ line' = Code[line].next
                   /\ UNCHANGED <<exception, loop_count>>
              ELSE Throw(outcome)
    /\ UNCHANGED returned
    /\ StageFrame

\* `if <option>:`
Branch ==
    /\ exception = "none" /\ ~returned /\ Code[line].kind = "if"
    /\ line' = IF options[Code[line].option] THEN Code[line].then ELSE Code[line].else
    /\ UNCHANGED <<loop_count, ran, exception, returned>>
    /\ StageFrame

\* `for _ in range(10):` starts the next iteration or, exhausted, goes to its
\* else clause
ForHeader ==
    /\ exception = "none" /\ ~returned /\ Code[line].kind = "for"
    /\ IF loop_count < Code[line].range
       THEN line' = Code[line].body /\ loop_count' = loop_count + 1
       ELSE line' = Code[line].else /\ UNCHANGED loop_count
    /\ UNCHANGED <<ran, exception, returned>>
    /\ StageFrame

\* `if inlined == ir: break` (line 85), `if unrolled == ir: break` (line 115)
CompareAndBreak ==
    /\ exception = "none" /\ ~returned /\ Code[line].kind = "if_equal"
    /\ \E equal \in BOOLEAN :
           IF equal THEN line' = Code[line].break /\ loop_count' = 0
           ELSE line' = Code[line].continue /\ UNCHANGED loop_count
    /\ UNCHANGED <<ran, exception, returned>>
    /\ StageFrame

\* the else clause of a loop: raise RuntimeError(...)
RaiseNotConverged ==
    /\ exception = "none" /\ ~returned /\ Code[line].kind = "raise"
    /\ Throw(Code[line].exception)
    /\ UNCHANGED <<ran, returned>>
    /\ StageFrame

\* lines 127-128: return ir
Return ==
    /\ exception = "none" /\ ~returned /\ Code[line].kind = "return"
    /\ returned' = TRUE
    /\ UNCHANGED <<line, loop_count, ran, exception>>
    /\ StageFrame

NextStages ==
    \/ AssertProgram \/ CallPass \/ Branch \/ ForHeader \/ CompareAndBreak
    \/ RaiseNotConverged \/ Return

SpecStages == InitStages /\ [][NextStages]_vars

(***************************************************************************)
(* Claims about the stages of apply_common_transforms (SpecStages)         *)
(***************************************************************************)
Stage(name, arguments) == [pass |-> name, arguments |-> arguments]

\* the passes called so far, without the lines they were called from
Stages_ran == [i \in 1..Len(ran) |-> Stage(ran[i].pass, ran[i].arguments)]

IsPrefix(s, t) == Len(s) <= Len(t) /\ \A i \in 1..Len(s) : s[i] = t[i]

RECURSIVE Times(_, _)
Times(s, n) == IF n = 0 THEN <<>> ELSE s \o Times(s, n - 1)

InliningStage == Stage("InlineLambdas", "opcount_preserving=True")

ForcedInliningStage ==
    Stage("InlineLambdas", "opcount_preserving=True, force_inline_lambda_args=True")

\* the order of the stages of a call whose main loop makes k iterations and
\* whose unroll loop starts j iterations
StageOrder(k, j) ==
    <<Stage("MergeLet", ""), Stage("InlineFundefs", ""),
      Stage("prune_unreferenced_fundefs", ""), Stage("NormalizeShifts", ""),
      ForcedInliningStage, Stage("infer_domain", "")>>
    \o Times(<<InliningStage, Stage("ConstantFolding", ""), Stage("CollapseTuple", ""),
               Stage("FuseAsFieldOp", "")>>, k)
    \o (IF options["common_subexpression_elimination"]
        THEN <<Stage("CommonSubexpressionElimination", ""), Stage("MergeLet", ""),
               InliningStage>>
        ELSE <<>>)
    \o (IF options["extract_temporaries"]
        THEN <<Stage("infer", "inplace=True"), Stage("create_global_tmps", "")>>
        ELSE <<>>)
    \o (IF options["unconditionally_collapse_tuples"]
        THEN <<Stage("CollapseTuple", "ignore_tuple_size=True")>>
        ELSE <<>>)
    \o <<Stage("NormalizeShifts", ""), Stage("FuseMaps", ""), Stage("CollapseListGet", "")>>
    \o (IF options["unroll_reduce"]
        THEN Times(<<Stage("UnrollReduce", ""), Stage("CollapseListGet", ""),
                     Stage("NormalizeShifts", "")>>, j - 1)
             \o <<Stage("UnrollReduce", "")>>
        ELSE <<>>)
    \o <<Stage("InlineLambdas",
               "opcount_preserving=True, force_inline_lambda_args=force_inline_lambda_args")>>

Position(name) == {i \in 1..Len(ran) : ran[i].pass = name}

\* C17: the stages of apply_common_transforms run in one fixed order, the
\* optional ones exactly when their option is set: what has run is always an
\* initial part of that order and, when the call returns, the whole of it;
\* domain inference comes after fundef inlining and the forced inlining,
\* temporary extraction directly after type inference in place, and a disabled
\* optional stage runs none of its passes.
C17_StagesRunInFixedOrder ==
    line # 0 =>
        /\ \E k \in 1..MainLoopRange, j \in 1..(UnrollLoopRange + 1) :
               IsPrefix(Stages_ran, StageOrder(k, j))
        /\ returned => \E k \in 1..MainLoopRange, j \in 1..UnrollLoopRange :
                           Stages_ran = StageOrder(k, j)
        /\ \A i \in Position("infer_domain") :
               /\ \E a \in Position("InlineFundefs") : a < i
               /\ \E b \in 1..(i - 1) : Stages_ran[b] = ForcedInliningStage
        /\ \A i \in Position("create_global_tmps") :
               i > 1 /\ Stages_ran[i - 1] = Stage("infer", "inplace=True")
        /\ ~options["common_subexpression_elimination"]
               => Position("CommonSubexpressionElimination") = {}
        /\ ~options["extract_temporaries"]
               => Position("infer") \cup Position("create_global_tmps") = {}
        /\ ~options["unconditionally_collapse_tuples"]
               => \A i \in Position("CollapseTuple") : ran[i].arguments = ""
        /\ ~options["unroll_reduce"] => Position("UnrollReduce") = {}

C17_Witness ==
    /\ returned
    /\ \A o \in OptionNames : options[o]
    /\ Cardinality(Position("FuseAsFieldOp")) = 3
    /\ Cardinality(Position("UnrollReduce")) = 3

\* the exception the statement at line l raises when it fails
Thrown(l) ==
    CASE Code[l].kind = "pass" -> PassErrors
      [] Code[l].kind = "raise" -> {Code[l].exception}
      [] Code[l].kind = "assert" -> {"AssertionError"}
      [] OTHER -> {}

Failed(i) == ran[i].outcome # "returns"

FailureAborts ==
    /\ \A i \in 1..Len(ran) :
           Failed(i) => /\ i = Len(ran)
                        /\ exception = ran[i].outcome
                        /\ line = ran[i].line
    /\ exception # "none" => ~returned /\ exception \in Thrown(line)
    /\ returned => exception = "none"

NothingAfterFailure == exception # "none" => UNCHANGED stage_vars

\* C18: the first failure of a stage (an error of a pass, an assertion of the
\* type inference, the RuntimeError of a loop that did not converge) ends the
\* call: the failed stage is the last one that ran, the exception that leaves
\* the call is the one raised, nothing happens afterwards and no tree is
\* returned.
C18_FirstFailureAborts == []FailureAborts /\ [][NothingAfterFailure]_vars

C18_Witness ==
    /\ exception = "AssertionError"
    /\ line = 98
    /\ Len(ran) > 10 /\ Failed(Len(ran)) /\ ran[Len(ran)].pass = "infer"
    /\ ~returned


(***************************************************************************)
(* tuple_get: the component selected by the index literal                  *)
(***************************************************************************)

\* the tree inferred (once, from untyped nodes) is tuple_get(<literal>, t) and
\* t was given a TupleType
TupleGetOfTuple ==
    /\ calls = 1
    /\ tree.kind = "FunCall" /\ is_call_to(tree, "tuple_get") /\ Len(tree.args) = 2
    /\ tree.args[1].kind = "Literal" /\ tree.args[1].value \in IntStrings
    /\ node_type[<<2>>] # None /\ node_type[<<2>>].k = "TupleType"

TupleIndex == ParseInt(tree.args[1].value)

TupleComponents == node_type[<<2>>].types

\* C19: for tuple_get(i, t) with t typed as a TupleType of n components,
\* inference returns component i when 0 <= i < n, and raises an error instead
\* of returning a type for every index outside [0, n), negative ones included.
C19_TupleGetChecksIndexRange ==
    TupleGetOfTuple =>
        IF 0 <= TupleIndex /\ TupleIndex < Len(TupleComponents)
        THEN error = "none" /\ node_type[<<>>] = TupleComponents[TupleIndex + 1]
        ELSE error # "none" /\ node_type[<<>>] = None

\* what the code does: the index is a Python list index, so -n .. -1 select a
\* component counted from the end and only the indices outside [-n, n) raise
C19_TupleGetIndexesLikeAList ==
    TupleGetOfTuple =>
        LET n == Len(TupleComponents)
        IN  IF -n <= TupleIndex /\ TupleIndex < n
            THEN error = "none"
                 /\ node_type[<<>>] = TupleComponents[IF TupleIndex >= 0 THEN TupleIndex + 1
                                                     ELSE n + TupleIndex + 1]
            ELSE error = "IndexError" /\ node_type[<<>>] = None

C19_NegativeIndexReturnsAType ==
    /\ TupleGetOfTuple
    /\ TupleIndex = -1
    /\ TupleComponents = <<IntType, FloatType>>
    /\ error = "none"
    /\ node_type[<<>>] = FloatType


(***************************************************************************)
(* SpecClosure: visit_StencilClosure on the results of visiting the        *)
(* closure's domain, inputs, output and stencil                            *)
(***************************************************************************)
KDim == Dimension("KDim", "vertical")

\* common.DimensionKind.LOCAL
DimensionKind_LOCAL == "local"

V2EDim == Dimension("V2E", DimensionKind_LOCAL)
V2VDim == Dimension("V2V", DimensionKind_LOCAL)

FieldType(dims, dtype) == [k |-> "FieldType", dims |-> dims, dtype |-> dtype]

DomainType(dims) == [k |-> "DomainType", dims |-> dims]

ListType(element_type) == [k |-> "ListType", element_type |-> element_type]

StencilClosureType(domain, stencil, output, inputs) ==
    [k |-> "StencilClosureType", domain |-> domain, stencil |-> stencil,
     output |-> output, inputs |-> inputs]

\* type_info.primitive_constituents: the non-tuple types of a type, left to right
RECURSIVE primitive_constituents(_)
primitive_constituents(symbol_type) ==
    IF symbol_type.k = "TupleType"
    THEN LET RECURSIVE chain(_)
             chain(i) == IF i > Len(symbol_type.types) THEN <<>>
                         ELSE primitive_constituents(symbol_type.types[i]) \o chain(i + 1)
         IN  chain(1)
    ELSE <<symbol_type>>

\* type_info.promote(el_type, always_field=True) of one field or scalar type
promote(el_type) ==
    IF el_type.k = "ScalarType" THEN FieldType(<<>>, el_type) ELSE el_type

\* type_info.apply_to_primitive_constituents(extract_dtype_and_dims, input_):
\* the value returned, a type of the same tuple structure
RECURSIVE element_type_of(_)
element_type_of(input_) ==
    IF input_.k = "TupleType"
    THEN TupleType([i \in 1..Len(input_.types) |-> element_type_of(input_.types[i])])
    ELSE promote(input_).dtype

\* extract_dtype_and_dims called on the constituents cs[i..] in order: the
\* nonlocal input_dims it leaves (assigned: it is not None)
RECURSIVE extract_dims(_, _, _, _)
extract_dims(cs, i, assigned, input_dims) ==
    IF i > Len(cs) THEN [assigned |-> assigned, val |-> input_dims, err |-> "none"]
    ELSE IF cs[i].k \notin {"FieldType", "ScalarType"}
    THEN [assigned |-> assigned, val |-> input_dims, err |-> "AssertionError"]
    ELSE LET el_type == promote(cs[i])
         IN  \* `not input_dims` holds for None and for the empty list
             IF ~assigned \/ input_dims = <<>>
             THEN extract_dims(cs, i + 1, TRUE, el_type.dims)
             ELSE IF input_dims # el_type.dims
             THEN [assigned |-> assigned, val |-> input_dims, err |-> "AssertionError"]
             ELSE extract_dims(cs, i + 1, assigned, input_dims)

\* mutant: the LOCAL dimension stays among the defined dimensions
all_dims(input_dims) == input_dims

\* the loop `for dim in input_dims`: the dimensions appended to defined_dims
defined_dims_of(input_dims) ==
    LET Test(dim) == dim.kind # DimensionKind_LOCAL IN SelectSeq(input_dims, Test)

\* the same loop: the dimensions on which is_nb_field is set or asserted unset
local_dims(input_dims) ==
    LET Test(dim) == dim.kind = DimensionKind_LOCAL IN SelectSeq(input_dims, Test)

_convert_closure_input_to_iterator(domain, input_) ==
    LET extracted == extract_dims(primitive_constituents(input_), 1, FALSE, <<>>)
        input_dims == extracted.val
        is_nb_field == Len(local_dims(input_dims)) > 0
        element_type == element_type_of(input_)
    IN  IF extracted.err # "none" THEN [val |-> None, err |-> extracted.err]
        ELSE IF ~extracted.assigned THEN [val |-> None, err |-> "AssertionError"]
        ELSE IF Len(local_dims(input_dims)) > 1
        THEN [val |-> None, err |-> "AssertionError"]
        ELSE [val |-> IteratorType(domain.dims, defined_dims_of(input_dims),
                                   IF is_nb_field THEN ListType(element_type)
                                   ELSE element_type),
              err |-> "none"]

\* the rules visiting the stencil may return, named by the stencil they type
StencilRules == {"deref", "lambda a, b: deref(b)",
                 "lambda a, b: make_tuple(deref(a), deref(b))"}

\* stencil_type_rule(*stencil_args)
stencil_type_rule(stencil, stencil_args) ==
    CASE stencil = "deref" ->
            IF Len(stencil_args) = 1
            THEN [val |-> stencil_args[1].element_type, err |-> "none"]
            ELSE [val |-> None, err |-> "TypeError"]
      [] stencil = "lambda a, b: deref(b)" ->
            IF Len(stencil_args) = 2
            THEN [val |-> stencil_args[2].element_type, err |-> "none"]
            ELSE [val |-> None, err |-> "TypeError"]
      [] stencil = "lambda a, b: make_tuple(deref(a), deref(b))" ->
            IF Len(stencil_args) = 2
            THEN [val |-> TupleType(<<stencil_args[1].element_type,
                                      stencil_args[2].element_type>>),
                  err |-> "none"]
            ELSE [val |-> None, err |-> "TypeError"]

\* [_convert_closure_input_to_iterator(domain, input_) for input_ in inputs]:
\* the iterator types of inputs[i..] appended to acc, up to the first failure
RECURSIVE convert_inputs(_, _, _, _)
convert_inputs(domain, inputs, i, acc) ==
    IF i > Len(inputs) THEN [val |-> acc, err |-> "none"]
    ELSE LET it == _convert_closure_input_to_iterator(domain, inputs[i])
         IN  IF it.err # "none" THEN [val |-> None, err |-> it.err]
             ELSE convert_inputs(domain, inputs, i + 1, Append(acc, it.val))

\* visit_StencilClosure after the visits of node.domain, node.inputs,
\* node.output and node.stencil
visit_StencilClosure(domain, inputs, output, stencil) ==
    LET output_els == primitive_constituents(output)
        stencil_args == convert_inputs(domain, inputs, 1, <<>>)
        stencil_returns == stencil_type_rule(stencil, stencil_args.val)
    IN  IF domain.k # "DomainType" THEN [val |-> None, err |-> "AssertionError"]
        ELSE IF \E j \in 1..Len(output_els) : output_els[j].k # "FieldType"
        THEN [val |-> None, err |-> "AssertionError"]
        ELSE IF stencil_args.err # "none" THEN [val |-> None, err |-> stencil_args.err]
        ELSE IF stencil_returns.err # "none"
        THEN [val |-> None, err |-> stencil_returns.err]
        ELSE [val |-> StencilClosureType(
                          domain,
                          FunctionType(stencil_args.val, <<>>, <<>>, stencil_returns.val),
                          output, inputs),
              err |-> "none"]

\* the types a visited input has: scalars, fields without, with one and with
\* two neighbor dimensions, a type that is no field, and tuples of them
PrimitiveInputs ==
    {IntType,
     FieldType(<<IDim>>, FloatType),
     FieldType(<<IDim, KDim>>, IntType),
     FieldType(<<IDim, V2EDim>>, FloatType),
     FieldType(<<KDim, V2EDim, IDim>>, IntType),
     FieldType(<<IDim, V2EDim, V2VDim>>, FloatType),
     DeferredType}

TupleInputs ==
    {TupleType(<<a, b>>) : a \in {IntType, FieldType(<<IDim>>, FloatType),
                                  FieldType(<<IDim, V2EDim>>, FloatType)},
                           b \in {IntType, FieldType(<<IDim>>, FloatType),
                                  FieldType(<<IDim, V2EDim>>, FloatType)}}
    \cup {TupleType(<<>>)}

InputTypes == PrimitiveInputs \cup TupleInputs

DomainTypes == {DomainType(<<IDim>>), DomainType(<<IDim, KDim>>), IntType}

OutputTypes ==
    {FieldType(<<IDim>>, FloatType),
     TupleType(<<FieldType(<<IDim>>, FloatType), FieldType(<<IDim, KDim>>, IntType)>>),
     TupleType(<<FieldType(<<IDim>>, FloatType), IntType>>)}

InitClosure ==
    /\ domain_type \in DomainTypes
    /\ input_types \in SeqsUpTo(InputTypes, MaxInputs)
    /\ output_type \in OutputTypes
    /\ stencil_rule \in StencilRules
    /\ closure_type = None
    /\ closure_error = "idle"
    /\ IdleCompat /\ IdleInfer /\ IdlePipeline /\ IdleInline /\ IdleStages /\ IdleWrites /\ IdleNodes /\ IdleLiterals /\ IdleExecutor /\ IdleTrace

VisitStencilClosure ==
    /\ closure_error = "idle"
    /\ LET r == visit_StencilClosure(domain_type, input_types, output_type, stencil_rule)
       IN  closure_type' = r.val /\ closure_error' = r.err
    /\ UNCHANGED <<domain_type, input_types, output_type, stencil_rule,
                   compat_vars, infer_vars, pipe_vars, inline_vars, stage_vars,
                write_vars, node_vars, lit_vars, gtfn_vars, trace_vars>>

NextClosure == VisitStencilClosure

SpecClosure == InitClosure /\ [][NextClosure]_vars


(***************************************************************************)
(* The type of a stencil closure                                           *)
(***************************************************************************)
ClosureVisited == closure_error # "idle"

OutputIsFields ==
    \A el \in Range(primitive_constituents(output_type)) : el.k = "FieldType"

\* the dimensions of a field, none for a scalar
DimsOf(el) == IF el.k = "FieldType" THEN el.dims ELSE <<>>

LocalDimsOf(el) == {j \in 1..Len(DimsOf(el)) : DimsOf(el)[j].kind = DimensionKind_LOCAL}

\* a field, a scalar, or a tuple of fields and scalars of the same dimensions
IsFieldInput(input_) ==
    LET els == primitive_constituents(input_)
    IN  /\ Len(els) > 0
        /\ \A j \in 1..Len(els) : /\ els[j].k \in {"FieldType", "ScalarType"}
                                  /\ DimsOf(els[j]) = DimsOf(els[1])

InputDims(input_) == DimsOf(primitive_constituents(input_)[1])

\* the dimensions of s that are not LOCAL, in the order of s
RECURSIVE NonLocal(_)
NonLocal(s) ==
    IF s = <<>> THEN <<>>
    ELSE IF Head(s).kind = DimensionKind_LOCAL THEN NonLocal(Tail(s))
    ELSE <<Head(s)>> \o NonLocal(Tail(s))

\* the dtype of an input: of a tuple, the tuple of the dtypes
RECURSIVE DtypeOf(_)
DtypeOf(input_) ==
    CASE input_.k = "TupleType" ->
            TupleType([j \in 1..Len(input_.types) |-> DtypeOf(input_.types[j])])
      [] input_.k = "FieldType" -> input_.dtype
      [] OTHER -> input_

\* the iterator type the closure's stencil is given for an input
ExpectedIterator(input_) ==
    IteratorType(domain_type.dims, NonLocal(InputDims(input_)),
                 IF \E j \in 1..Len(InputDims(input_)) :
                        InputDims(input_)[j].kind = DimensionKind_LOCAL
                 THEN ListType(DtypeOf(input_))
                 ELSE DtypeOf(input_))

\* C20: visiting a StencilClosure fails unless the domain is a DomainType and
\* every primitive constituent of the output is a FieldType, and fails for
\* an input with more than one LOCAL dimension; when it succeeds, the stencil
\* is given one IteratorType per input, in input order, whose position dims
\* are the domain's dims, whose defined dims are the input's non-LOCAL dims
\* in order and whose element type is the input's dtype, in a list type iff
\* the input has a LOCAL dimension; the stencil's return type is the
\* stencil's rule applied to these iterator types.
C20_ClosureStencilIsTypedOnIterators ==
    ClosureVisited =>
        /\ domain_type.k # "DomainType" \/ ~OutputIsFields => closure_error # "none"
        /\ (\E i \in 1..Len(input_types) :
                \E el \in Range(primitive_constituents(input_types[i])) :
                    Cardinality(LocalDimsOf(el)) > 1)
           => closure_error # "none"
        /\ closure_error # "none" => closure_type = None
        /\ closure_error = "none" =>
              /\ closure_type.k = "StencilClosureType"
              /\ closure_type.domain = domain_type
              /\ closure_type.inputs = input_types
              /\ closure_type.output = output_type
              /\ Len(closure_type.stencil.pos_only_args) = Len(input_types)
              /\ \A i \in 1..Len(input_types) :
                    IsFieldInput(input_types[i]) =>
                        closure_type.stencil.pos_only_args[i]
                            = ExpectedIterator(input_types[i])
              /\ closure_type.stencil.returns
                    = stencil_type_rule(stencil_rule,
                                        closure_type.stencil.pos_only_args).val

\* a closure on a two-dimensional domain typed without failure: a sparse
\* field with its LOCAL dimension between two others, and a tuple of fields
C20_Witness ==
    /\ closure_error = "none"
    /\ domain_type = DomainType(<<IDim, KDim>>)
    /\ input_types = <<FieldType(<<KDim, V2EDim, IDim>>, IntType),
                       TupleType(<<FieldType(<<IDim>>, FloatType),
                                   FieldType(<<IDim>>, FloatType)>>)>>
    /\ stencil_rule = "lambda a, b: make_tuple(deref(a), deref(b))"
    /\ closure_type.stencil.pos_only_args =
           <<IteratorType(<<IDim, KDim>>, <<KDim, IDim>>, ListType(IntType)),
             IteratorType(<<IDim, KDim>>, <<IDim>>, TupleType(<<FloatType, FloatType>>))>>
    /\ closure_type.stencil.returns =
           TupleType(<<ListType(IntType), TupleType(<<FloatType, FloatType>>)>>)

\* a tuple input whose constituents have different dimensions is accepted when
\* the constituents before the first field with dimensions are scalars
\* (`not input_dims` holds for the empty list), and rejected otherwise
ClosureTupleInputOfScalarAndField ==
    /\ closure_error = "none"
    /\ \E i \in 1..Len(input_types) :
          /\ input_types[i] = TupleType(<<IntType, FieldType(<<IDim>>, FloatType)>>)
          /\ closure_type.stencil.pos_only_args[i].defined_dims = <<IDim>>


(***************************************************************************)
(* Tuple inputs of a closure                                               *)
(***************************************************************************)
\* the dims of the constituents of an input after promotion to fields
PromotedDims(input_) ==
    {promote(el).dims : el \in {c \in Range(primitive_constituents(input_)) :
                                    c.k \in {"FieldType", "ScalarType"}}}

\* C28: _convert_closure_input_to_iterator fails for a tuple-typed input
\* unless all of its primitive constituents, promoted to fields, have
\* identical dims; when it succeeds every constituent has the dims used for
\* the iterator (its defined dims are their non-LOCAL part).
C28_TupleInputConstituentsShareDims ==
    closure_error = "none" =>
        \A i \in 1..Len(input_types) :
            input_types[i].k = "TupleType" =>
                /\ Cardinality(PromotedDims(input_types[i])) = 1
                /\ \A d \in PromotedDims(input_types[i]) :
                       closure_type.stencil.pos_only_args[i].defined_dims = NonLocal(d)

\* what the code ensures: the constituents from the first one with
\* dimensions on have identical dims; those before it have none
C28_ConstituentsAgreeFromFirstWithDims ==
    closure_error = "none" =>
        \A i \in 1..Len(input_types) :
            input_types[i].k = "TupleType" =>
                LET els == primitive_constituents(input_types[i])
                IN  \A j \in 1..Len(els), l \in 1..Len(els) :
                        j < l /\ promote(els[j]).dims # <<>>
                            => promote(els[l]).dims = promote(els[j]).dims


(***************************************************************************)
(* The non-convergence error of the main loop                              *)
(***************************************************************************)
\* the tree is a fixed point of the body of the main loop
MainLoopFixedPoint == MainLoopBody(ir, mergeasfop_uids).ir = ir

\* C30: the RuntimeError of the main loop is raised only for inputs that have
\* not reached a fixed point: when the tree produced by the 10th application
\* of the loop body is a fixed point of the body, the call goes on with the
\* later stages instead of raising.
C30_RaisesOnlyWithoutFixedPoint ==
    pc = "RuntimeError" /\ iteration = MainLoopRange => ~MainLoopFixedPoint

\* the 10th application changed the tree into a fixed point, and the call
\* raised: the loop has no 11th application that would compare equal
C30_RaisedAtFixedPoint ==
    /\ pc = "RuntimeError" /\ iteration = MainLoopRange /\ changes = MainLoopRange
    /\ MainLoopFixedPoint

\* what the code does: it raises exactly when the first 10 applications all
\* changed the tree, whatever an 11th would do
C30_RaisesAfterTenChanges ==
    pc = "RuntimeError" <=> iteration = MainLoopRange /\ changes = MainLoopRange


(***************************************************************************)
(* infer and the tree it is given                                          *)
(***************************************************************************)
InferCall == calls' = calls + 1

\* the call leaves the type fields of the tree it was given as they were, and
\* the types it produced are on another tree
GivenTreeUnchanged == given_type' = node_type

\* the types the call produced are on the tree it was given
GivenTreeWritten == given_type' = node_type'

InferCopiesUnlessInplace ==
    InferCall =>
        /\ ~in_place' => GivenTreeUnchanged
        /\ in_place' => GivenTreeWritten

\* C24: infer with inplace=False leaves the tree it was given unchanged (no
\* type field of the input is written, also when inference fails part-way)
\* and the types inferred are on the copy it returns; with inplace=True it
\* writes the types into, and returns, the tree it was given.
C24_InferCopiesUnlessInplace == [][InferCopiesUnlessInplace]_vars

\* a call without inplace that failed part-way: the copy has received types,
\* the tree given has none
C24_Witness ==
    /\ calls = 1 /\ ~in_place /\ error # "none"
    /\ given_type = InitialTypes(tree)
    /\ \E p \in DOMAIN node_type : node_type[p] # given_type[p]


(***************************************************************************)
(* Callbacks left when infer returns                                       *)
(***************************************************************************)
\* a callback registered by on_type_ready on a rule that never got its type
PendingCallbacks ==
    {r \in 1..Len(rules) : rules[r].inferred_type = None /\ rules[r].callbacks # <<>>}

\* an on_inferred call whose callback was never invoked
WaitingSubscriptions == {s \in 1..Len(subs) : subs[s].fired = 0}

\* C26: when infer returns, every callback registered through on_type_ready
\* during the call has been invoked: no rule is left with a pending callback
\* and no on_inferred subscription is left waiting.
C26_CallbacksAreDrained ==
    calls > 0 /\ error = "none" => PendingCallbacks = {} /\ WaitingSubscriptions = {}

\* infer returned from (\x. \z. x)(1): the rule of the lambda returned by the
\* call is never applied, the listener of the outer lambda waits for it
C26_ReturnedWithPendingCallback ==
    /\ calls = 1 /\ error = "none"
    /\ tree = FunCall(Lambda(<<Sym("x")>>, Lambda(<<Sym("z")>>, SymRef("x"))), <<L_int>>)
    /\ PendingCallbacks # {} /\ WaitingSubscriptions # {}
    /\ node_type[<<>>] = None

\* what the code ensures: a subscription is left waiting only for a rule that
\* was never applied, and a callback is pending only on such a rule
C26_OnlyUnappliedRulesKeepCallbacks ==
    calls > 0 /\ error = "none" =>
        /\ \A s \in WaitingSubscriptions :
               \E j \in 1..Len(subs[s].args) :
                   /\ IsRule(subs[s].args[j])
                   /\ rules[subs[s].args[j].ref].inferred_type = None
        /\ ~late


(***************************************************************************)
(* SpecWrites: the two places that write a node's type field, applied to   *)
(* one node in any order                                                   *)
(***************************************************************************)
\* node.type, None before the first write
CurrentType == IF held = <<>> THEN None ELSE held[Len(held)]

\* the engine state seen by a write to the node
NodeState == [err |-> "none", types |-> (<<>> :> CurrentType), writes |-> <<>>]

WriteTypes == IteratorTypes \cup {IntType, FloatType}

InitWrites ==
    /\ held = <<>>
    /\ write_error = "none"
    /\ IdleCompat /\ IdleInfer /\ IdlePipeline /\ IdleInline /\ IdleStages /\ IdleClosure /\ IdleNodes /\ IdleLiterals /\ IdleExecutor /\ IdleTrace

WriteFrame ==
    UNCHANGED <<compat_vars, infer_vars, pipe_vars, inline_vars, stage_vars, closure_vars,
                node_vars, lit_vars, gtfn_vars, trace_vars>>

\* the node's type field after a write that left the engine in state st
Written(st) ==
    /\ write_error' = st.err
    /\ held' = IF st.err = "none" THEN Append(held, st.types[<<>>]) ELSE held

\* _set_node_type(node, type_)
SetNodeType ==
    /\ write_error = "none" /\ Len(held) < MaxWrites
    /\ \E type_ \in WriteTypes : Written(set_node_type(NodeState, <<>>, type_))
    /\ WriteFrame

\* ITIRTypeInference.visit(node) whose visitor method returned the type result
VisitNode ==
    /\ write_error = "none" /\ Len(held) < MaxWrites
    /\ \E result \in WriteTypes : Written(visit_result(Ret(NodeState, result), <<>>).st)
    /\ WriteFrame

NextWrites == SetNodeType \/ VisitNode

SpecWrites == InitWrites /\ [][NextWrites]_vars

\* C29: after any sequence of successful type writes to one node, the node's
\* current type is compatible, per _is_compatible_type, with every type the
\* node held earlier; in particular a concrete position_dims or a non-empty
\* defined_dims of an iterator type is never replaced by a different
\* concrete value.
C29_CurrentTypeCompatibleWithEarlier ==
    \A i \in 1..Len(held) :
        /\ is_compatible_type(held[i], CurrentType) = "true"
        /\ held[i].k = "IteratorType" /\ CurrentType.k = "IteratorType" =>
              /\ held[i].position_dims = Unknown \/ CurrentType.position_dims = Unknown
                 \/ held[i].position_dims = CurrentType.position_dims
              /\ held[i].defined_dims = <<>> \/ CurrentType.defined_dims = <<>>
                 \/ held[i].defined_dims = CurrentType.defined_dims

\* an iterator on IDim became an iterator on JDim by way of one with unknown
\* position and no defined dimensions; each write passed its assertion
C29_ConcreteDimsReplaced ==
    /\ write_error = "none"
    /\ held = <<IteratorType(<<IDim>>, <<IDim>>, IntType),
                IteratorType(Unknown, <<>>, IntType),
                IteratorType(<<JDim>>, <<JDim>>, IntType)>>

\* what the code ensures: each type is compatible with the one it replaced
C29_EachWriteCompatibleWithReplaced ==
    \A i \in 1..(Len(held) - 1) : is_compatible_type(held[i], held[i + 1]) = "true"


(***************************************************************************)
(* Symbol resolution                                                       *)
(***************************************************************************)
FirstCallReturned == calls = 1 /\ error = "none"

\* the type of the whole expression
RootType == node_type[<<>>]

\* a reference is typed by the innermost enclosing binding of its name
InnermostBindingWins ==
    \A a1 \in {L_int, L_float}, a2 \in {L_int, L_float} :
        calls = 1 /\ tree = Shadowed(a1, a2) => error = "none" /\ RootType = a2.type

\* a parameter shadows the builtin of its name: fun(1, make_tuple(1, 2.0)) is
\* the application of the parameter, bound to \a, b. a
ParameterShadowsBuiltin ==
    \A fun \in {"plus", "tuple_get"} :
        calls = 1 /\ tree = ShadowedBuiltin(fun) => error = "none" /\ RootType = IntType

\* the body of a lambda is typed in the context of its definition
DefinitionContextIsCaptured ==
    \A a1 \in {L_int, L_float}, a2 \in {L_int, L_float} :
        calls = 1 /\ tree = Captured(a1, a2) => error = "none" /\ RootType = a1.type

\* a reference that is in no context
UndeclaredFailsUnlessAllowed ==
    calls = 1 /\ tree = SymRef("y") =>
        IF allow_undeclared THEN error = "none" /\ RootType = DeferredType
        ELSE error = "AssertionError" /\ RootType = None

\* C22: symbol resolution in type inference is strictly lexical: a SymRef is
\* typed by the innermost enclosing binding of its name (a parameter shadows
\* an outer symbol or builtin of the same name), the body of a Lambda is
\* typed in the context of its definition extended by its parameters, and a
\* SymRef absent from the context fails unless allow_undeclared_symbols is
\* set, in which case it yields the stored type or DeferredType.
C22_SymbolResolutionIsLexical ==
    /\ InnermostBindingWins
    /\ ParameterShadowsBuiltin
    /\ DefinitionContextIsCaptured
    /\ UndeclaredFailsUnlessAllowed

\* (\tuple_get. tuple_get(1, make_tuple(1, 2.0)))(\a, b. a) is typed as the
\* builtin tuple_get: float64, the second component, and not int32
C22_ShadowedTupleGetIsBuiltin ==
    /\ FirstCallReturned
    /\ tree = ShadowedBuiltin("tuple_get")
    /\ RootType = FloatType
    /\ node_type[<<0, 0, 0>>] = None

\* what the code does: lexical for every name looked up in the context; a
\* call whose function is a SymRef named tuple_get (or cast_) is typed as
\* the builtin without a lookup
C22_LexicalExceptSyntacticBuiltins ==
    /\ InnermostBindingWins
    /\ DefinitionContextIsCaptured
    /\ UndeclaredFailsUnlessAllowed
    /\ calls = 1 /\ tree = ShadowedBuiltin("plus") => error = "none" /\ RootType = IntType
    /\ calls = 1 /\ tree = ShadowedBuiltin("tuple_get")
           => error = "none" /\ RootType = FloatType


(***************************************************************************)
(* SpecNodes: == and hash of IR nodes that carry a location and a type     *)
(***************************************************************************)
\* class Node: the fields location and type of every node; Literal declares
\* type itself, as a required field
WithFields(node, location, type_) ==
    IF node.kind = "Literal" THEN node @@ [location |-> location]
    ELSE node @@ [location |-> location, type |-> type_]

\* mutant: the field type is compared on every node
type_always_compared(kind) == TRUE

\* eve.field(..., compare=False) on Node.type, undone by `type: ts.ScalarType`
\* of Literal
type_is_compared(kind) == kind = "Literal"

\* eve.field(..., compare=False) on Node.location
location_is_compared(kind) == FALSE

\* the generated __eq__ of a node class: same class and equal compared fields
RECURSIVE node_eq(_, _)
node_eq(a, b) ==
    /\ a.kind = b.kind
    /\ location_is_compared(a.kind) => a.location = b.location
    /\ type_is_compared(a.kind) => a.type = b.type
    /\ CASE a.kind = "Literal" -> a.value = b.value
         [] a.kind = "SymRef" -> a.id = b.id
         [] a.kind = "FunCall" ->
                /\ node_eq(a.fun, b.fun)
                /\ Len(a.args) = Len(b.args)
                /\ \A i \in 1..Len(a.args) : node_eq(a.args[i], b.args[i])

\* the fields a node class declares itself
declared_fields(node) ==
    CASE node.kind = "Literal" -> <<"value", "type">>
      [] node.kind = "SymRef" -> <<"id">>
      [] node.kind = "FunCall" -> <<"fun", "args">>

\* mutant: every field of the datamodel is a child, those of Node included
every_field(node) ==
    <<"location">> \o (IF node.kind = "Literal" THEN <<>> ELSE <<"type">>)
    \o declared_fields(node)

\* eve.Node.iter_children_values, by the names of the fields whose values it
\* yields.  gt4py.eve is outside the sources modelled here; the children are
\* taken to be the fields the class declares, as the description of Node has
\* it ("hashed structurally, by variant tag and child values").  Were the
\* fields of Node itself among them (every_field), the hash would depend on
\* location and type while __eq__ does not.
iter_children_values(node) == declared_fields(node)

\* Node.__hash__: hash(type(self)) ^ hash(tuple(...)) over the children, a
\* list hashed as the tuple of its items.  A hash is modelled by the value it
\* is computed from: equal hashes are hashes of equal values.
RECURSIVE node_hash(_)
node_hash(node) ==
    LET fields == iter_children_values(node)
        hash_of(field) ==
            CASE field = "fun" -> node_hash(node.fun)
              [] field = "args" -> [i \in 1..Len(node.args) |-> node_hash(node.args[i])]
              [] OTHER -> node[field]
    IN  [class |-> node.kind,
         children |-> [i \in 1..Len(fields) |-> hash_of(fields[i])]]

SourceLocation(filename, line_number) ==
    [k |-> "SourceLocation", filename |-> filename, line_number |-> line_number]

Locations == {None, SourceLocation("program.py", 1)}

InferredTypes == {None, IntType, FloatType}

LeafNodes ==
    {WithFields(Literal(v, t), l, t) : v \in {"1", "2"}, t \in {IntType, FloatType},
                                      l \in Locations}
    \cup {WithFields(SymRef(id), l, t) : id \in {"x", "y"}, l \in Locations,
                                         t \in InferredTypes}

CallNodes ==
    {WithFields([kind |-> "FunCall", fun |-> f, args |-> as], None, t) :
         f \in {WithFields(SymRef("f"), None, t2) : t2 \in {None, IntType}},
         as \in {<<>>} \cup {<<a>> : a \in LeafNodes},
         t \in {None, FloatType}}

IRNodes == LeafNodes \cup CallNodes

InitNodes ==
    /\ node_a \in IRNodes
    /\ node_b \in IRNodes
    /\ equal_ab = "unknown"
    /\ hash_a = None /\ hash_b = None
    /\ IdleCompat /\ IdleInfer /\ IdlePipeline /\ IdleInline /\ IdleStages /\ IdleClosure
    /\ IdleWrites /\ IdleLiterals /\ IdleExecutor /\ IdleTrace

\* node_a == node_b, hash(node_a), hash(node_b)
CompareAndHash ==
    /\ equal_ab = "unknown"
    /\ equal_ab' = IF node_eq(node_a, node_b) THEN "True" ELSE "False"
    /\ hash_a' = node_hash(node_a)
    /\ hash_b' = node_hash(node_b)
    /\ UNCHANGED <<node_a, node_b, compat_vars, infer_vars, pipe_vars, inline_vars,
                   stage_vars, closure_vars, write_vars, lit_vars, gtfn_vars,
                trace_vars>>

NextNodes == CompareAndHash

SpecNodes == InitNodes /\ [][NextNodes]_vars

\* the node without the fields location and type of class Node, at every depth
RECURSIVE Structure(_)
Structure(node) ==
    CASE node.kind = "Literal" -> [kind |-> "Literal", value |-> node.value,
                                   type |-> node.type]
      [] node.kind = "SymRef" -> [kind |-> "SymRef", id |-> node.id]
      [] node.kind = "FunCall" ->
             [kind |-> "FunCall", fun |-> Structure(node.fun),
              args |-> [i \in 1..Len(node.args) |-> Structure(node.args[i])]]

\* C23, the half about __eq__, which ir.py determines: two nodes are equal
\* exactly when they agree in everything but the location and type fields of
\* class Node (the type of a Literal is a field of its own and is compared).
C23_EqualityIgnoresLocationAndType ==
    equal_ab \in {"True", "False"} =>
        (equal_ab = "True" <=> Structure(node_a) = Structure(node_b))

\* C23: equality and hashing of IR nodes are structural and ignore location
\* and inferred type: two nodes of the same variant with equal child values
\* are equal and have equal hashes even when their location or type fields
\* differ, and nodes that are equal have equal hashes.
C23_NodeEqualityIsStructural ==
    equal_ab \in {"True", "False"} =>
        /\ Structure(node_a) = Structure(node_b) => equal_ab = "True" /\ hash_a = hash_b
        /\ equal_ab = "True" => hash_a = hash_b
        /\ equal_ab = "True" => Structure(node_a) = Structure(node_b)

\* two calls f(x) equal and of equal hash although the calls, the functions
\* and the arguments differ in type and location
C23_Witness ==
    /\ equal_ab = "True" /\ hash_a = hash_b
    /\ node_a.kind = "FunCall" /\ Len(node_a.args) = 1
    /\ node_a.type # node_b.type
    /\ node_a.fun.type # node_b.fun.type
    /\ node_a.args[1].kind = "SymRef"
    /\ node_a.args[1].type # node_b.args[1].type
    /\ node_a.args[1].location # node_b.args[1].location

\* the type of a Literal is a child value: two literals "1" of different type
\* are different nodes
C23_LiteralsDifferByType ==
    /\ equal_ab = "False" /\ hash_a # hash_b
    /\ node_a.kind = "Literal" /\ node_b.kind = "Literal"
    /\ node_a.value = node_b.value /\ node_a.location = node_b.location
    /\ node_a.type # node_b.type


(***************************************************************************)
(* OffsetLiteral and AxisLiteral: the dimension universe of one inference  *)
(* call and the two visits that resolve a literal against it               *)
(***************************************************************************)

\* a Python value of type Union[int, str], as OffsetLiteral.value is declared
PyInt(n) == [py |-> "int", int |-> n, str |-> ""]
PyStr(s) == [py |-> "str", int |-> 0, str |-> s]

\* the characters of the strings that occur as values of literals and as
\* names of offsets and dimensions
Characters(s) ==
    CASE s = "" -> <<>>
      [] s = "0" -> <<"0">>
      [] s = "1" -> <<"1">>
      [] s = "-1" -> <<"-", "1">>
      [] s = " 1" -> <<" ", "1">>
      [] s = "+2" -> <<"+", "2">>
      [] s = "1_0" -> <<"1", "_", "0">>
      [] s = "1__0" -> <<"1", "_", "_", "0">>
      [] s = "_1" -> <<"_", "1">>
      [] s = "1.5" -> <<"1", ".", "5">>
      [] s = "Ioff" -> <<"I", "o", "f", "f">>
      [] s = "Koff" -> <<"K", "o", "f", "f">>
      [] s = "IDim" -> <<"I", "D", "i", "m">>
      [] s = "JDim" -> <<"J", "D", "i", "m">>
      [] s = "KDim" -> <<"K", "D", "i", "m">>
      [] s = "V2E" -> <<"V", "2", "E">>
      [] s = "Vertex" -> <<"V", "e", "r", "t", "e", "x">>
      [] s = "Edge" -> <<"E", "d", "g", "e">>

IsDigit(c) == c \in {"0", "1", "2", "3", "4", "5", "6", "7", "8", "9"}

DigitValue(c) ==
    CASE c = "0" -> 0 [] c = "1" -> 1 [] c = "2" -> 2 [] c = "3" -> 3
      [] c = "4" -> 4 [] c = "5" -> 5 [] c = "6" -> 6 [] c = "7" -> 7
      [] c = "8" -> 8 [] c = "9" -> 9

IsSpace(c) == c = " "

RECURSIVE lstrip(_)
lstrip(cs) == IF Len(cs) > 0 /\ IsSpace(Head(cs)) THEN lstrip(Tail(cs)) ELSE cs

RECURSIVE rstrip(_)
rstrip(cs) ==
    IF Len(cs) > 0 /\ IsSpace(cs[Len(cs)]) THEN rstrip(SubSeq(cs, 1, Len(cs) - 1))
    ELSE cs

\* int(s) raised ValueError
ValueError == [ok |-> FALSE, int |-> 0]

\* the digit part of an integer literal: decimal digits, single underscores
\* between digits only
RECURSIVE digits_value(_, _, _)
digits_value(cs, acc, previous) ==
    IF Len(cs) = 0
    THEN IF previous = "digit" THEN [ok |-> TRUE, int |-> acc] ELSE ValueError
    ELSE IF IsDigit(Head(cs))
    THEN digits_value(Tail(cs), 10 * acc + DigitValue(Head(cs)), "digit")
    ELSE IF Head(cs) = "_" /\ previous = "digit"
    THEN digits_value(Tail(cs), acc, "underscore")
    ELSE ValueError

\* int(s) of an int (itself) or of a str: surrounding whitespace, an optional
\* sign, digits
int_(value) ==
    IF value.py = "int" THEN [ok |-> TRUE, int |-> value.int]
    ELSE LET cs == rstrip(lstrip(Characters(value.str)))
             signed == Len(cs) > 0 /\ Head(cs) \in {"+", "-"}
             parsed == digits_value(IF signed THEN Tail(cs) ELSE cs, 0, "start")
         IN IF parsed.ok /\ signed /\ Head(cs) = "-"
            THEN [ok |-> TRUE, int |-> 0 - parsed.int]
            ELSE parsed

\* mutant: only a Python int is an integer
only_python_ints(value) == value.py = "int"

_is_representable_as_int(value) == int_(value).ok

Connectivity(origin_axis, neighbor_axis) ==
    [k |-> "Connectivity", origin_axis |-> origin_axis, neighbor_axis |-> neighbor_axis]

DimensionType(dim) == [k |-> "DimensionType", dim |-> dim]

OffsetLiteralType(value) == [k |-> "OffsetLiteralType", value |-> value]

\* isinstance(obj, common.Dimension), isinstance(obj, common.Connectivity)
IsDimension(obj) == DOMAIN obj = {"value", "kind"}
IsConnectivity(obj) == "origin_axis" \in DOMAIN obj

\* d[key] = val on a dict
Put(d, key, val) == [n \in DOMAIN d \cup {key} |-> IF n = key THEN val ELSE d[n]]

\* a | b on dicts
Merge(a, b) == [n \in DOMAIN a \cup DOMAIN b |-> IF n \in DOMAIN b THEN b[n] ELSE a[n]]

\* mutant: the names of the offsets are no dimensions
RECURSIVE dimensions_of_providers_only(_, _)
dimensions_of_providers_only(items, dims) ==
    IF Len(items) = 0 THEN dims
    ELSE LET provider == items[1][2]
             d2 == IF IsDimension(provider) THEN Put(dims, provider.value, provider)
                   ELSE IF IsConnectivity(provider)
                   THEN Put(Put(dims, provider.origin_axis.value, provider.origin_axis),
                            provider.neighbor_axis.value, provider.neighbor_axis)
                   ELSE dims
         IN dimensions_of_providers_only(Tail(items), d2)

\* the loop of _get_dimensions_from_offset_provider over offset_provider.items()
RECURSIVE dimensions_from_items(_, _)
dimensions_from_items(items, dims) ==
    IF Len(items) = 0 THEN dims
    ELSE LET offset_name == items[1][1]
             provider == items[1][2]
             d1 == Put(dims, offset_name, Dimension(offset_name, DimensionKind_LOCAL))
             d2 == IF IsDimension(provider) THEN Put(d1, provider.value, provider)
                   ELSE IF IsConnectivity(provider)
                   THEN Put(Put(d1, provider.origin_axis.value, provider.origin_axis),
                            provider.neighbor_axis.value, provider.neighbor_axis)
                   ELSE d1
         IN dimensions_from_items(Tail(items), d2)

_get_dimensions_from_offset_provider(items) == dimensions_from_items(items, <<>>)

RECURSIVE Concat(_)
Concat(seqs) == IF Len(seqs) = 0 THEN <<>> ELSE Head(seqs) \o Concat(Tail(seqs))

\* _get_dimensions on a type: the Dimension objects in the fields of the
\* dataclass, in the order of the fields; a str ("unknown") holds none
RECURSIVE _get_dimensions(_)
_get_dimensions(obj) ==
    CASE obj.k = "FieldType" -> obj.dims
      [] obj.k = "DimensionType" -> <<obj.dim>>
      [] obj.k = "OffsetLiteralType" ->
             IF IsDimension(obj.value) THEN <<obj.value>> ELSE <<>>
      [] obj.k = "IteratorType" ->
             (IF obj.position_dims = Unknown THEN <<>> ELSE obj.position_dims)
             \o obj.defined_dims \o _get_dimensions(obj.element_type)
      [] obj.k = "TupleType" ->
             Concat([i \in 1..Len(obj.types) |-> _get_dimensions(obj.types[i])])
      [] obj.k = "ListType" -> _get_dimensions(obj.element_type)
      [] obj.k = "FunctionType" ->
             Concat([i \in 1..Len(obj.pos_only_args) |->
                        _get_dimensions(obj.pos_only_args[i])])
             \o Concat([i \in 1..Len(obj.pos_or_kw_args) |->
                           _get_dimensions(Values(obj.pos_or_kw_args)[i])])
             \o Concat([i \in 1..Len(obj.kw_only_args) |->
                           _get_dimensions(Values(obj.kw_only_args)[i])])
             \o _get_dimensions(obj.returns)
      [] OTHER -> <<>>

\* {dim.value: dim for dim in ...}
RECURSIVE dict_by_value(_, _)
dict_by_value(dims, d) ==
    IF Len(dims) = 0 THEN d
    ELSE dict_by_value(Tail(dims), Put(d, Head(dims).value, Head(dims)))

_get_dimensions_from_types(types) ==
    dict_by_value(Concat([i \in 1..Len(types) |-> _get_dimensions(types[i])]), <<>>)

\* the dimensions argument of the instance made by ITIRTypeInference.apply
apply_dimensions(provider_items, types) ==
    Merge(_get_dimensions_from_offset_provider(provider_items),
          _get_dimensions_from_types(types))

\* visit_OffsetLiteral
visit_OffsetLiteral(node, dims) ==
    IF _is_representable_as_int(node.value)
    THEN [err |-> "none", type |-> OffsetLiteralType(PyInt(int_(node.value).int))]
    ELSE IF node.value.py = "str" /\ node.value.str \in DOMAIN dims
    THEN [err |-> "none", type |-> OffsetLiteralType(dims[node.value.str])]
    ELSE [err |-> "AssertionError", type |-> None]

\* visit_AxisLiteral
visit_AxisLiteral(node, dims) ==
    IF node.value.str \in DOMAIN dims
    THEN [err |-> "none", type |-> DimensionType(dims[node.value.str])]
    ELSE [err |-> "AssertionError", type |-> None]

Vertex == Dimension("Vertex", "horizontal")
Edge == Dimension("Edge", "horizontal")

\* offset providers: none, a Cartesian offset, a connectivity, both, an offset
\* whose name is a numeral, an offset named like its dimension, and a
\* provider that is neither a Dimension nor a Connectivity
OffsetProviders ==
    {<<>>,
     <<<<"Ioff", IDim>>>>,
     <<<<"V2E", Connectivity(Vertex, Edge)>>>>,
     <<<<"Ioff", IDim>>, <<"V2E", Connectivity(Vertex, Edge)>>>>,
     <<<<"1", KDim>>>>,
     <<<<"IDim", IDim>>>>,
     <<<<"Koff", [k |-> "object"]>>>>}

\* the types found on the nodes of the given tree
StoredTypes ==
    {<<>>,
     <<IntType>>,
     <<FieldType(<<JDim>>, IntType)>>,
     <<IteratorType(Unknown, <<>>, IntType), IteratorType(<<KDim>>, <<KDim>>, IntType)>>,
     <<TupleType(<<IntType, FieldType(<<IDim, KDim>>, FloatType)>>)>>,
     <<DimensionType(Dimension("V2E", "horizontal"))>>,
     <<OffsetLiteralType(PyInt(1)), OffsetLiteralType(Edge)>>}

LiteralStrings ==
    {"", "0", "1", "-1", " 1", "+2", "1_0", "1__0", "_1", "1.5", "Ioff", "Koff",
     "IDim", "JDim", "KDim", "V2E", "Vertex", "Edge"}

LiteralNodes ==
    {[kind |-> "OffsetLiteral", value |-> PyInt(n)] : n \in {-1, 0, 1}}
    \cup {[kind |-> "OffsetLiteral", value |-> PyStr(s)] : s \in LiteralStrings}
    \cup {[kind |-> "AxisLiteral", value |-> PyStr(s)] : s \in LiteralStrings}

InitLiterals ==
    /\ offset_provider \in OffsetProviders
    /\ stored_types \in StoredTypes
    /\ literal_node \in LiteralNodes
    /\ dimensions = <<>>
    /\ literal_type = None
    /\ literal_err = "unvisited"
    /\ IdleCompat /\ IdleInfer /\ IdlePipeline /\ IdleInline /\ IdleStages /\ IdleClosure
    /\ IdleWrites /\ IdleNodes /\ IdleExecutor /\ IdleTrace

LiteralFrame ==
    UNCHANGED <<offset_provider, stored_types, literal_node, compat_vars, infer_vars,
                pipe_vars, inline_vars, stage_vars, closure_vars, write_vars, node_vars,
                gtfn_vars, trace_vars>>

\* ITIRTypeInference.apply on a tree whose node visited is an OffsetLiteral
VisitOffsetLiteral ==
    /\ literal_err = "unvisited"
    /\ literal_node.kind = "OffsetLiteral"
    /\ LET dims == apply_dimensions(offset_provider, stored_types)
           result == visit_OffsetLiteral(literal_node, dims)
       IN /\ dimensions' = dims
          /\ literal_type' = result.type
          /\ literal_err' = result.err
    /\ LiteralFrame

\* ITIRTypeInference.apply on a tree whose node visited is an AxisLiteral
VisitAxisLiteral ==
    /\ literal_err = "unvisited"
    /\ literal_node.kind = "AxisLiteral"
    /\ LET dims == apply_dimensions(offset_provider, stored_types)
           result == visit_AxisLiteral(literal_node, dims)
       IN /\ dimensions' = dims
          /\ literal_type' = result.type
          /\ literal_err' = result.err
    /\ LiteralFrame

NextLiterals == VisitOffsetLiteral \/ VisitAxisLiteral

SpecLiterals == InitLiterals /\ [][NextLiterals]_vars

\* the literal values that are written integers, with the integer each denotes
WrittenIntegers ==
    {<<PyInt(n), n>> : n \in {-1, 0, 1}}
    \cup {<<PyStr("0"), 0>>, <<PyStr("1"), 1>>, <<PyStr("-1"), 0 - 1>>,
          <<PyStr(" 1"), 1>>, <<PyStr("+2"), 2>>, <<PyStr("1_0"), 10>>}

\* the names of the dimensions a type mentions
RECURSIVE DimensionNamesIn(_)
DimensionNamesIn(type_) ==
    CASE type_.k = "FieldType" -> {type_.dims[i].value : i \in 1..Len(type_.dims)}
      [] type_.k = "DimensionType" -> {type_.dim.value}
      [] type_.k = "OffsetLiteralType" ->
             IF type_.value \in {PyInt(n) : n \in {-1, 0, 1}} THEN {} ELSE {type_.value.value}
      [] type_.k = "IteratorType" ->
             {type_.defined_dims[i].value : i \in 1..Len(type_.defined_dims)}
             \cup (IF type_.position_dims = Unknown THEN {}
                   ELSE {type_.position_dims[i].value : i \in 1..Len(type_.position_dims)})
      [] type_.k = "TupleType" ->
             UNION {DimensionNamesIn(type_.types[i]) : i \in 1..Len(type_.types)}
      [] OTHER -> {}

\* the dimension universe of the call: the offsets of the provider and the
\* dimensions their providers name, and the dimensions in the stored types
DimensionUniverse ==
    {offset_provider[i][1] : i \in 1..Len(offset_provider)}
    \cup {IDim.value : i \in {j \in 1..Len(offset_provider) : offset_provider[j][2] = IDim}}
    \cup {KDim.value : i \in {j \in 1..Len(offset_provider) : offset_provider[j][2] = KDim}}
    \cup UNION {{Vertex.value, Edge.value} :
                   i \in {j \in 1..Len(offset_provider) :
                             offset_provider[j][2] = Connectivity(Vertex, Edge)}}
    \cup UNION {DimensionNamesIn(stored_types[i]) : i \in 1..Len(stored_types)}

LiteralVisited == literal_err \notin {"idle", "unvisited"}

\* C21: an OffsetLiteral whose value is a written integer gets the constant
\* displacement of that integer; every other OffsetLiteral and every
\* AxisLiteral gets a type naming its dimension when its value is in the
\* dimension universe of the call, and the call fails otherwise.
C21_LiteralsResolveAgainstDimensionUniverse ==
    LiteralVisited =>
        LET value == literal_node.value
            written == {w \in WrittenIntegers : w[1] = value}
        IN IF literal_node.kind = "OffsetLiteral" /\ written # {}
           THEN /\ literal_err = "none"
                /\ \A w \in written : literal_type = OffsetLiteralType(PyInt(w[2]))
           ELSE IF value.str \in DimensionUniverse
           THEN /\ literal_err = "none"
                /\ IF literal_node.kind = "OffsetLiteral"
                   THEN literal_type.k = "OffsetLiteralType"
                        /\ literal_type.value.value = value.str
                   ELSE literal_type.k = "DimensionType"
                        /\ literal_type.dim.value = value.str
           ELSE literal_err # "none" /\ literal_type = None

\* the string "1_0" is the displacement 10
C21_Witness ==
    /\ LiteralVisited
    /\ literal_node.kind = "OffsetLiteral"
    /\ literal_node.value = PyStr("1_0")
    /\ literal_type = OffsetLiteralType(PyInt(10))

\* with an empty offset provider "JDim" resolves to the dimension of a field
\* type stored in the tree
C21_DimensionFromStoredType ==
    /\ LiteralVisited
    /\ literal_node = [kind |-> "AxisLiteral", value |-> PyStr("JDim")]
    /\ offset_provider = <<>>
    /\ literal_type = DimensionType(JDim)

\* "Vertex" is no dimension of a call whose provider has no connectivity
C21_UnknownNameFails ==
    /\ LiteralVisited
    /\ literal_node.kind = "OffsetLiteral"
    /\ literal_node.value = PyStr("Vertex")
    /\ literal_err = "AssertionError"


(***************************************************************************)
(* GTFNExecutor.__call__: the cache of compiled runners                    *)
(***************************************************************************)

\* an argument of a program call: a scalar, or a buffer (an object with
\* __array__)
Argument(kind, dtype, value) == [kind |-> kind, dtype |-> dtype, value |-> value]

\* from_value(arg): the frontend type of an argument
from_value(arg) ==
    IF arg.kind = "scalar" THEN ScalarType(arg.dtype)
    ELSE FieldType(<<IDim>>, ScalarType(arg.dtype))

\* convert_arg
convert_arg(arg) ==
    IF arg.kind = "buffer" THEN Argument("ndarray", arg.dtype, arg.value) ELSE arg

\* an offset provider object: its id() and the tables (_tbl) of its
\* connectivities, in the order of .values()
OffsetProviderObject(id, tables) == [id |-> id, tables |-> tables]

\* stages.ProgramCall(program, args, kwargs)
ProgramCall(program, args, supplied_provider, column_axis) ==
    [program |-> program, args |-> args, offset_provider |-> supplied_provider,
     column_axis |-> column_axis]

hash_program(program) == CASE program = "p" -> 1 [] program = "q" -> 2

\* content_hash of the tuple of argument types: a digest that tells the
\* tuples used here apart
content_hash(types) ==
    CASE types = <<IntType>> -> 1
      [] types = <<FloatType>> -> 2
      [] types = <<FieldType(<<IDim>>, FloatType)>> -> 3

hash_column_axis(column_axis) == IF column_axis = None THEN 0 ELSE 1

\* hash() of the 4-tuple: a function of the components into the integers of
\* the machine, which is not injective
hash_(hp, ht, id, hc) == (((hp * 3 + ht) * 3 + id) * 3 + hc) % (2 ^ HashBits)

\* the cache_key of a call
cache_key_of(program_call) ==
    hash_(hash_program(program_call.program),
          content_hash([i \in 1..Len(program_call.args) |-> from_value(program_call.args[i])]),
          program_call.offset_provider.id,
          hash_column_axis(program_call.column_axis))

\* what otf_workflow returns for a ProgramCall: convert_args applied to the
\* compiled program, a closure over the kwargs of the call
otf_workflow(program_call) ==
    [compiled |-> program_call.program,
     signature |-> [i \in 1..Len(program_call.args) |-> from_value(program_call.args[i])],
     column_axis |-> program_call.column_axis,
     kwargs_offset_provider |-> program_call.offset_provider]

\* decorated_program(*args): the call of the compiled program it makes
decorated_program(runner, args) ==
    [runner |-> runner,
     passed |-> [i \in 1..Len(args) |-> convert_arg(args[i])]
                \o runner.kwargs_offset_provider.tables]

\* mutant: the lookup never finds an entry
never_cached(cache, key) == FALSE

\* `cache_key not in self._cache`, negated
is_cached(cache, key) == key \in DOMAIN cache

\* d.get(key, 0) on the counters kept per cache key
Count(d, key) == IF key \in DOMAIN d THEN d[key] ELSE 0

ExecutorOffsetProviders ==
    {OffsetProviderObject(1, <<"v2e_tbl">>), OffsetProviderObject(2, <<>>)}

\* the calls made: a call, and calls that differ from it in the value of the
\* argument only or in one component of the key
ProgramCalls ==
    LET op1 == OffsetProviderObject(1, <<"v2e_tbl">>)
        op2 == OffsetProviderObject(2, <<>>)
    IN  {ProgramCall("p", <<Argument("scalar", "int32", 1)>>, op1, None),
         ProgramCall("p", <<Argument("scalar", "int32", 2)>>, op1, None),
         ProgramCall("p", <<Argument("scalar", "float64", 1)>>, op1, None),
         ProgramCall("p", <<Argument("buffer", "float64", 1)>>, op1, None),
         ProgramCall("q", <<Argument("scalar", "int32", 1)>>, op1, None),
         ProgramCall("p", <<Argument("scalar", "int32", 1)>>, op2, None),
         ProgramCall("p", <<Argument("scalar", "int32", 1)>>, op1, KDim)}

CallsMade == IF last_call = None THEN 0 ELSE last_call.number

InitExecutor ==
    /\ _cache = <<>>
    /\ workflow_runs = <<>>
    /\ workflow_returns = <<>>
    /\ calls_by_key = <<>>
    /\ last_call = None
    /\ IdleCompat /\ IdleInfer /\ IdlePipeline /\ IdleInline /\ IdleStages /\ IdleClosure
    /\ IdleWrites /\ IdleNodes /\ IdleLiterals /\ IdleTrace

\* GTFNExecutor.__call__(program, *args, offset_provider=..., column_axis=...);
\* the workflow (translation, binding, compilation) returns or raises
ExecutorCall ==
    /\ CallsMade < MaxCalls
    /\ \E program_call \in ProgramCalls, outcome \in {"returns", "raises"} :
          LET cache_key == cache_key_of(program_call)
              miss == ~is_cached(_cache, cache_key)
              raised == miss /\ outcome = "raises"
              stored == miss /\ outcome = "returns"
              cache_after == IF stored THEN Put(_cache, cache_key, otf_workflow(program_call))
                             ELSE _cache
          IN /\ outcome = "raises" => miss
             /\ _cache' = cache_after
             /\ workflow_runs' =
                    IF miss THEN Put(workflow_runs, cache_key, Count(workflow_runs, cache_key) + 1)
                    ELSE workflow_runs
             /\ workflow_returns' =
                    IF stored
                    THEN Put(workflow_returns, cache_key, Count(workflow_returns, cache_key) + 1)
                    ELSE workflow_returns
             /\ calls_by_key' = Put(calls_by_key, cache_key, Count(calls_by_key, cache_key) + 1)
             /\ last_call' =
                    [number |-> CallsMade + 1, call |-> program_call, key |-> cache_key,
                     hit |-> ~miss, raised |-> raised,
                     invoked |-> IF raised THEN None
                                 ELSE decorated_program(cache_after[cache_key], program_call.args)]
    /\ UNCHANGED <<compat_vars, infer_vars, pipe_vars, inline_vars, stage_vars,
                   closure_vars, write_vars, node_vars, lit_vars, trace_vars>>

NextExecutor == ExecutorCall

SpecExecutor == InitExecutor /\ [][NextExecutor]_vars

\* the latest call invoked the runner stored under its key with its own
\* arguments
InvokedStoredRunner ==
    /\ last_call.key \in DOMAIN _cache
    /\ last_call.invoked # None
    /\ last_call.invoked.runner = _cache[last_call.key]
    /\ Len(last_call.invoked.passed) >= Len(last_call.call.args)
    /\ \A i \in 1..Len(last_call.call.args) :
          /\ last_call.invoked.passed[i].value = last_call.call.args[i].value
          /\ last_call.invoked.passed[i].dtype = last_call.call.args[i].dtype

\* an entry of the cache is never removed and never replaced
EntriesKept ==
    \A k \in DOMAIN _cache : k \in DOMAIN _cache' /\ _cache'[k] = _cache[k]

\* C27 as stated: the workflow runs exactly once per cache key that was
\* called, on the first call with it; every call invokes the runner stored
\* under its key with its own arguments; entries are never removed or replaced.
C27_WorkflowRunsOncePerKey ==
    /\ [](/\ \A k \in DOMAIN calls_by_key : Count(workflow_runs, k) = 1
          /\ last_call # None => InvokedStoredRunner)
    /\ [][EntriesKept]_vars

\* the workflow of a key was run a second time, after it had raised on the
\* first call with that key
C27_WorkflowRetriedAfterFailure ==
    /\ last_call # None
    /\ Count(calls_by_key, last_call.key) = 2
    /\ Count(workflow_runs, last_call.key) = 2
    /\ ~last_call.hit /\ ~last_call.raised

\* the workflow runs on a call exactly when no entry is stored under the key
\* of the call
RunsOnMiss ==
    LET key == last_call'.key
    IN  Count(workflow_runs', key) =
            Count(workflow_runs, key) + (IF key \in DOMAIN _cache THEN 0 ELSE 1)

\* C27, with the failing workflow accounted for: per cache key the workflow
\* returns at most once and is run on every call with that key up to and
\* including the one on which it returns; a call invokes the runner stored
\* under its key with its own arguments unless its workflow raised, in which
\* case nothing is stored or invoked; entries are never removed or replaced.
C27_WorkflowRunsUntilItReturns ==
    /\ [](/\ \A k \in DOMAIN calls_by_key :
                /\ Count(workflow_returns, k) = (IF k \in DOMAIN _cache THEN 1 ELSE 0)
                /\ Count(workflow_runs, k) >= 1
                /\ Count(workflow_runs, k) <= Count(calls_by_key, k)
                /\ k \notin DOMAIN _cache => Count(workflow_runs, k) = Count(calls_by_key, k)
          /\ DOMAIN _cache \subseteq DOMAIN calls_by_key
          /\ last_call # None =>
                IF last_call.raised
                THEN last_call.invoked = None /\ last_call.key \notin DOMAIN _cache
                ELSE InvokedStoredRunner)
    /\ [][EntriesKept /\ RunsOnMiss]_vars

\* three calls with one key: the first compiles, the second differs in the
\* value of its argument only and is a hit passing its own value
C27_Witness ==
    /\ last_call # None
    /\ last_call.hit
    /\ Count(calls_by_key, last_call.key) = 3
    /\ Count(workflow_runs, last_call.key) = 1
    /\ last_call.call.args[1].value = 2
    /\ last_call.invoked.passed[1].value = 2
    /\ _cache[last_call.key].compiled = last_call.call.program

\* two calls whose keys are different tuples of the same hash: the second is
\* served the runner compiled for the first
C27_HitOnCollidingKey ==
    /\ last_call # None
    /\ last_call.hit
    /\ _cache[last_call.key].compiled # last_call.call.program


(***************************************************************************)
(* TraceShifts: the symbolic evaluation of the stencil of a closure on     *)
(* tracers of its inputs                                                   *)
(***************************************************************************)

\* the value of everything that is no iterator and no function
Sentinel_VALUE == [k |-> "Sentinel.VALUE"]

\* the offset recorded for a reduction over all neighbors
ALL_NEIGHBORS == [kind |-> "ALL_NEIGHBORS", value |-> PyStr("ALL_NEIGHBORS")]

\* the iterator a closure input is replaced by: the input and the offsets
\* applied to it so far
InputTracer(inp, offsets) == [k |-> "InputTracer", inp |-> inp, offsets |-> offsets]

\* the iterator made by an applied lift: the stencil, the iterators it was
\* applied to and the offsets applied to it so far
LiftedIterator(stencil, its, offsets) ==
    [k |-> "LiftedIterator", stencil |-> stencil, its |-> its, offsets |-> offsets]

StencilClosure(stencil, inputs) ==
    [kind |-> "StencilClosure", stencil |-> stencil, inputs |-> inputs]

\* mutant: a shift leaves the offsets of the iterator as they are
shift_forgotten(it, offsets) == it

\* shift(*offsets)(it) on the value of an iterator expression
shifted(it, offsets) ==
    IF it.k = "InputTracer" THEN InputTracer(it.inp, it.offsets \o offsets)
    ELSE IF it.k = "LiftedIterator"
    THEN LiftedIterator(it.stencil, it.its, it.offsets \o offsets)
    ELSE it

\* mutant: the offsets are recorded once, however often they are dereferenced
register_deref_once(shifts, it) ==
    [n \in DOMAIN shifts |->
        IF n = it.inp /\ \A i \in 1..Len(shifts[n]) : shifts[n][i] # it.offsets
        THEN Append(shifts[n], it.offsets) ELSE shifts[n]]

\* register_deref: the offsets of a dereferenced tracer are appended to the
\* list of its input
register_deref(shifts, it) ==
    [n \in DOMAIN shifts |-> IF n = it.inp THEN Append(shifts[n], it.offsets) ELSE shifts[n]]

\* the evaluator: "visit" of a node in a context, "call" of a function value
\* on argument values, "visit_all" of the arguments of a call and "deref_all"
\* of the iterators a reduction is applied to; each returns the value and
\* the shifts recorded so far
RECURSIVE tracing(_, _)
tracing(op, a) ==
    CASE op = "visit" ->
           LET node == a.node
           IN CASE node.kind = "SymRef" ->
                       [value |-> IF node.id \in DOMAIN a.ctx THEN a.ctx[node.id]
                                  ELSE [k |-> "builtin", name |-> node.id],
                        shifts |-> a.shifts]
                [] node.kind = "Lambda" ->
                       [value |-> [k |-> "lambda", params |-> node.params,
                                   expr |-> node.expr, ctx |-> a.ctx],
                        shifts |-> a.shifts]
                [] node.kind = "FunCall" ->
                       IF node.fun.kind = "SymRef" /\ node.fun.id = "shift"
                       THEN [value |-> [k |-> "shift", offsets |-> node.args],
                             shifts |-> a.shifts]
                       ELSE LET f == tracing("visit", [node |-> node.fun, ctx |-> a.ctx,
                                                       shifts |-> a.shifts])
                                args == tracing("visit_all", [nodes |-> node.args, ctx |-> a.ctx,
                                                              shifts |-> f.shifts])
                            IN tracing("call", [fun |-> f.value, args |-> args.value,
                                                shifts |-> args.shifts])
                [] OTHER -> [value |-> Sentinel_VALUE, shifts |-> a.shifts]
      [] op = "visit_all" ->
           IF Len(a.nodes) = 0 THEN [value |-> <<>>, shifts |-> a.shifts]
           ELSE LET first == tracing("visit", [node |-> Head(a.nodes), ctx |-> a.ctx,
                                               shifts |-> a.shifts])
                    others == tracing("visit_all", [nodes |-> Tail(a.nodes), ctx |-> a.ctx,
                                                    shifts |-> first.shifts])
                IN [value |-> <<first.value>> \o others.value, shifts |-> others.shifts]
      [] op = "deref_all" ->
           IF Len(a.its) = 0 THEN [value |-> Sentinel_VALUE, shifts |-> a.shifts]
           ELSE LET first == tracing("call", [fun |-> [k |-> "builtin", name |-> "deref"],
                                              args |-> <<Head(a.its)>>, shifts |-> a.shifts])
                IN tracing("deref_all", [its |-> Tail(a.its), shifts |-> first.shifts])
      [] op = "call" ->
           LET fun == a.fun
               args == a.args
           IN CASE fun.k = "lambda" ->
                       tracing("visit",
                               [node |-> fun.expr,
                                ctx |-> [n \in DOMAIN fun.ctx
                                               \cup {fun.params[i].id : i \in 1..Len(fun.params)} |->
                                           IF \E i \in 1..Len(fun.params) : fun.params[i].id = n
                                           THEN args[CHOOSE i \in 1..Len(fun.params) :
                                                        fun.params[i].id = n]
                                           ELSE fun.ctx[n]],
                                shifts |-> a.shifts])
                [] fun.k = "shift" ->
                       [value |-> shifted(args[1], fun.offsets), shifts |-> a.shifts]
                [] fun.k = "lift" ->
                       [value |-> LiftedIterator(fun.stencil, args, <<>>), shifts |-> a.shifts]
                [] fun.k = "reduce" ->
                       tracing("deref_all",
                               [its |-> [i \in 1..Len(args) |-> shifted(args[i], <<ALL_NEIGHBORS>>)],
                                shifts |-> a.shifts])
                [] fun.k = "builtin" /\ fun.name = "deref" ->
                       IF args[1].k = "InputTracer"
                       THEN [value |-> Sentinel_VALUE,
                             shifts |-> register_deref(a.shifts, args[1])]
                       ELSE IF args[1].k = "LiftedIterator"
                       THEN tracing("call",
                                    [fun |-> args[1].stencil,
                                     args |-> [i \in 1..Len(args[1].its) |->
                                                  shifted(args[1].its[i], args[1].offsets)],
                                     shifts |-> a.shifts])
                       ELSE [value |-> Sentinel_VALUE, shifts |-> a.shifts]
                [] fun.k = "builtin" /\ fun.name = "lift" ->
                       [value |-> [k |-> "lift", stencil |-> args[1]], shifts |-> a.shifts]
                [] fun.k = "builtin" /\ fun.name = "reduce" ->
                       [value |-> [k |-> "reduce"], shifts |-> a.shifts]
                [] fun.k = "builtin" /\ fun.name = "cast_" ->
                       [value |-> args[1], shifts |-> a.shifts]
                [] OTHER -> [value |-> Sentinel_VALUE, shifts |-> a.shifts]

\* TraceShifts.visit_StencilClosure: an empty list for every input, then the
\* stencil applied to the tracers of the inputs
TraceShifts(node, shifts) ==
    LET started == [n \in DOMAIN shifts \cup {node.inputs[i].id : i \in 1..Len(node.inputs)} |->
                       IF n \in DOMAIN shifts THEN shifts[n] ELSE <<>>]
        stencil == tracing("visit", [node |-> node.stencil, ctx |-> <<>>, shifts |-> started])
    IN tracing("call", [fun |-> stencil.value,
                        args |-> [i \in 1..Len(node.inputs) |->
                                     InputTracer(node.inputs[i].id, <<>>)],
                        shifts |-> stencil.shifts]).shifts

shift_(offset, distance) ==
    <<OffsetLiteral(PyStr(offset)), OffsetLiteral(PyInt(distance))>>

\* the steps between a parameter and its deref: two shifts, a cast_ and a
\* lift of deref
PathSteps == {"I", "J", "cast_", "lift"}

StepOffsets(step) ==
    CASE step = "I" -> shift_("I", 1)
      [] step = "J" -> shift_("J", 0 - 1)
      [] OTHER -> <<>>

\* the iterator expression reached from `it` by the steps of a path
RECURSIVE Along(_, _)
Along(path, it) ==
    IF Len(path) = 0 THEN it
    ELSE LET step == Head(path)
             next == CASE step = "cast_" -> Call("cast_", <<it, SymRef("float32")>>)
                       [] step = "lift" -> FunCall(Call("lift", <<SymRef("deref")>>), <<it>>)
                       [] OTHER -> FunCall(Call("shift", StepOffsets(step)), <<it>>)
         IN Along(Tail(path), next)

\* the offsets of the shifts of a path, in the order of the steps
RECURSIVE PathOffsets(_)
PathOffsets(path) ==
    IF Len(path) = 0 THEN <<>> ELSE StepOffsets(Head(path)) \o PathOffsets(Tail(path))

AccessPaths == SeqsUpTo(PathSteps, MaxPath)

ShortPaths == SeqsUpTo(PathSteps, 1)

\* closures described by the accesses of their stencil: each access is a
\* parameter (x or y, bound to inp and inp2) and a path to a deref; one access
\* possibly under tuple_get, or two accesses added
Descriptions ==
    {[shape |-> s, accesses |-> <<[param |-> "x", path |-> p]>>] :
        s \in {"deref", "tuple_get"}, p \in AccessPaths}
    \cup {[shape |-> "plus", accesses |-> <<[param |-> "x", path |-> p],
                                            [param |-> v, path |-> q]>>] :
            p \in ShortPaths, q \in ShortPaths, v \in {"x", "y"}}

Access(access) == Call("deref", <<Along(access.path, SymRef(access.param))>>)

Described(d) ==
    StencilClosure(
        Lambda(<<Sym("x"), Sym("y")>>,
               CASE d.shape = "deref" -> Access(d.accesses[1])
                 [] d.shape = "tuple_get" ->
                        Call("tuple_get", <<IntLiteral(0), Access(d.accesses[1])>>)
                 [] d.shape = "plus" ->
                        Call("plus", <<Access(d.accesses[1]), Access(d.accesses[2])>>)),
        <<SymRef("inp"), SymRef("inp2")>>)

\* the closures of test_trace_shifts.py with the shifts each test expects
TraceTests ==
    {[testee |-> StencilClosure(SymRef("deref"), <<SymRef("inp")>>),
      expected |-> [n \in {"inp"} |-> <<<<>>>>]],
     [testee |-> StencilClosure(
                     Lambda(<<Sym("x")>>,
                            Call("deref", <<FunCall(Call("shift", shift_("I", 1)),
                                                    <<SymRef("x")>>)>>)),
                     <<SymRef("inp")>>),
      expected |-> [n \in {"inp"} |-> <<shift_("I", 1)>>]],
     [testee |-> StencilClosure(
                     Lambda(<<Sym("x")>>,
                            Call("deref",
                                 <<FunCall(Call("shift", shift_("I", 1)),
                                           <<Call("cast_", <<SymRef("x"), SymRef("float32")>>)>>)>>)),
                     <<SymRef("inp")>>),
      expected |-> [n \in {"inp"} |-> <<shift_("I", 1)>>]],
     [testee |-> StencilClosure(
                     Lambda(<<Sym("x")>>,
                            Call("deref",
                                 <<FunCall(Call("lift", <<SymRef("deref")>>),
                                           <<FunCall(Call("shift", shift_("I", 1)),
                                                     <<SymRef("x")>>)>>)>>)),
                     <<SymRef("inp")>>),
      expected |-> [n \in {"inp"} |-> <<shift_("I", 1)>>]],
     [testee |-> StencilClosure(Call("reduce", <<SymRef("plus"), SymRef("init")>>),
                                <<SymRef("inp")>>),
      expected |-> [n \in {"inp"} |-> <<<<ALL_NEIGHBORS>>>>]],
     [testee |-> StencilClosure(
                     Lambda(<<Sym("x")>>,
                            Call("deref",
                                 <<FunCall(Call("shift", shift_("I", 1)),
                                           <<FunCall(Call("lift", <<Lambda(<<>>, IntLiteral(1))>>),
                                                     <<>>)>>)>>)),
                     <<SymRef("inp")>>),
      expected |-> [n \in {"inp"} |-> <<>>]],
     [testee |-> StencilClosure(
                     Lambda(<<Sym("x")>>,
                            Call("tuple_get",
                                 <<IntLiteral(0),
                                   Call("deref", <<FunCall(Call("shift", shift_("I", 1)),
                                                           <<SymRef("x")>>)>>)>>)),
                     <<SymRef("inp")>>),
      expected |-> [n \in {"inp"} |-> <<shift_("I", 1)>>]]}

TraceClosures == {t.testee : t \in TraceTests} \cup {Described(d) : d \in Descriptions}

InitTrace ==
    /\ testee \in TraceClosures
    /\ actual = <<>>
    /\ trace_state = "pending"
    /\ IdleCompat /\ IdleInfer /\ IdlePipeline /\ IdleInline /\ IdleStages /\ IdleClosure
    /\ IdleWrites /\ IdleNodes /\ IdleLiterals /\ IdleExecutor

\* actual = dict(); TraceShifts().visit(testee, shifts=actual)
VisitTraceShifts ==
    /\ trace_state = "pending"
    /\ actual' = TraceShifts(testee, actual)
    /\ trace_state' = "visited"
    /\ UNCHANGED <<testee, compat_vars, infer_vars, pipe_vars, inline_vars, stage_vars,
                   closure_vars, write_vars, node_vars, lit_vars, gtfn_vars>>

NextTrace == VisitTraceShifts

SpecTrace == InitTrace /\ [][NextTrace]_vars

\* the number of times an entry occurs in a list
Occurrences(entry, list) == Cardinality({i \in 1..Len(list) : list[i] = entry})

\* the entries the accesses of a description make on the input bound to a
\* parameter: the offsets of the path of every access through that parameter
ExpectedEntries(d, param) ==
    {PathOffsets(d.accesses[i].path) : i \in {j \in 1..Len(d.accesses) : d.accesses[j].param = param}}

ExpectedOccurrences(d, param, entry) ==
    Cardinality({i \in 1..Len(d.accesses) :
                    d.accesses[i].param = param /\ PathOffsets(d.accesses[i].path) = entry})

\* C25: the shifts recorded for a StencilClosure hold, for every input, one
\* entry per dereference of an iterator derived from that input, the entry
\* being the offset literals of the shifts on the way to the deref (lift,
\* cast_ and tuple_get add nothing); an input that is never dereferenced has
\* the empty list; a reduce stencil records (ALL_NEIGHBORS,); the closures of
\* the tests yield what the tests expect.
C25_OneEntryPerDeref ==
    trace_state = "visited" =>
        /\ \A t \in TraceTests : testee = t.testee => actual = t.expected
        /\ \A d \in Descriptions :
              testee = Described(d) =>
                  /\ DOMAIN actual = {"inp", "inp2"}
                  /\ \A input \in {"inp", "inp2"} :
                        LET param == IF input = "inp" THEN "x" ELSE "y"
                        IN /\ Len(actual[input]) =
                                  Cardinality({i \in 1..Len(d.accesses) :
                                                  d.accesses[i].param = param})
                           /\ \A i \in 1..Len(actual[input]) :
                                 Occurrences(actual[input][i], actual[input]) =
                                     ExpectedOccurrences(d, param, actual[input][i])

\* two derefs of the same shifted parameter: two equal entries for inp, none
\* for inp2, whose parameter is never dereferenced
C25_Witness ==
    /\ trace_state = "visited"
    /\ testee = Described([shape |-> "plus",
                           accesses |-> <<[param |-> "x", path |-> <<"I">>],
                                          [param |-> "x", path |-> <<"I">>]>>])
    /\ actual["inp"] = <<shift_("I", 1), shift_("I", 1)>>
    /\ actual["inp2"] = <<>>

\* the reduce stencil of test_reduce
C25_ReduceRecordsAllNeighbors ==
    /\ trace_state = "visited"
    /\ testee.stencil = Call("reduce", <<SymRef("plus"), SymRef("init")>>)
    /\ actual["inp"] = <<<<ALL_NEIGHBORS>>>>

====
